---- MODULE Spec2Model ----
(***************************************************************************)
(* Model of the scan-analysis backend (backend/agents/langgraph_workflow,  *)
(* backend/services/facial_analysis_client, backend/api/scans).            *)
(*                                                                         *)
(* Conventions                                                             *)
(*  - Scores are fixed-point tenths: Dec(6, 5) is the Python float 6.5.    *)
(*  - A JSON / Python value is a tagged record: JNull (None), JNum, JStr,  *)
(*    JBool, JObj (dict, a function on its keys), JArr (list).             *)
(*  - A Python str that is only built and never inspected is a sequence of *)
(*    fragments (f-string pieces); a str whose characters are inspected    *)
(*    (an improvement's area label) is a sequence of characters.           *)
(*  - An operator that models a function which may raise returns a record  *)
(*    with a field "raised".                                               *)
(***************************************************************************)
EXTENDS Integers, Sequences, FiniteSets, TLC

Dec(whole, frac) == whole * 10 + frac

Min(a, b) == IF a <= b THEN a ELSE b

Max(a, b) == IF a >= b THEN a ELSE b

(***************************************************************************)
(* JSON values                                                             *)
(***************************************************************************)
JNull == [t |-> "null"]

JNum(n) == [t |-> "num", v |-> n]

JStr(s) == [t |-> "str", s |-> s]

JBool(b) == [t |-> "bool", b |-> b]

JObj(f) == [t |-> "obj", f |-> f]

JArr(s) == [t |-> "arr", s |-> s]

EmptyDict == [k \in {} |-> JNull]

\* dict.get(key, default) on the content of a JObj
Get(d, k, dflt) == IF k \in DOMAIN d THEN d[k] ELSE dflt

IsNum(v) == v.t = "num"

IsObj(v) == v.t = "obj"

\* An enumeration of a finite set in some fixed order
RECURSIVE SetToSeq(_)
SetToSeq(S) ==
    IF S = {} THEN <<>>
    ELSE LET x == CHOOSE y \in S : TRUE IN <<x>> \o SetToSeq(S \ {x})

\* All orders in which the elements of a finite set can be listed
Orderings(S) ==
    { s \in [1..Cardinality(S) -> S] : \A i, j \in 1..Cardinality(S) : (i # j) => (s[i] # s[j]) }

(***************************************************************************)
(* Characters and substring search (str.lower, the "in" operator on str)   *)
(***************************************************************************)
Upper == <<"A", "B", "C", "D", "E", "F", "G", "H", "I", "J", "K", "L", "M",
           "N", "O", "P", "Q", "R", "S", "T", "U", "V", "W", "X", "Y", "Z">>

LowerLetters == <<"a", "b", "c", "d", "e", "f", "g", "h", "i", "j", "k", "l", "m",
                  "n", "o", "p", "q", "r", "s", "t", "u", "v", "w", "x", "y", "z">>

LowerOf(c) ==
    IF \E i \in 1..Len(Upper) : Upper[i] = c
    THEN LowerLetters[CHOOSE i \in 1..Len(Upper) : Upper[i] = c]
    ELSE c

\* str.lower()
Lower(s) == [i \in 1..Len(s) |-> LowerOf(s[i])]

\* needle in haystack
IsSubstring(needle, hay) ==
    \E off \in 0..(Len(hay) - Len(needle)) :
        \A i \in 1..Len(needle) : hay[off + i] = needle[i]

(***************************************************************************)
(* The FaceMetrics schema: region groups and their sub-score keys          *)
(***************************************************************************)
GroupKeys ==
    [jawline |-> {"definition_score", "symmetry_score", "masseter_development", "chin_projection", "ramus_length"},
     cheekbones |-> {"prominence_score", "width_score", "hollowness_below", "symmetry_score"},
     eye_area |-> {"upper_eyelid_exposure", "palpebral_fissure_height", "under_eye_area", "brow_bone_prominence", "orbital_rim_support", "symmetry_score"},
     nose |-> {"bridge_height", "tip_projection", "nostril_symmetry", "overall_harmony"},
     lips |-> {"upper_lip_volume", "lower_lip_volume", "cupids_bow_definition", "vermillion_border", "philtrum_definition", "lip_symmetry"},
     forehead |-> {"brow_bone_projection", "temple_hollowing", "forehead_symmetry", "skin_texture"},
     skin |-> {"overall_quality", "texture_score", "clarity_score", "tone_evenness", "hydration_appearance", "pore_visibility", "under_eye_darkness"},
     proportions |-> {"facial_thirds_balance", "upper_third_score", "middle_third_score", "lower_third_score", "horizontal_fifths_balance", "overall_symmetry", "facial_convexity", "golden_ratio_adherence"},
     profile |-> {"forehead_projection", "nose_projection", "lip_projection", "chin_projection", "submental_area", "ramus_visibility", "profile_harmony"},
     hair |-> {"density", "hairline_health", "hair_quality"},
     body_fat |-> {"facial_leanness", "definition_potential"}]

Groups == DOMAIN GroupKeys

ScalarKeys == {"overall_score", "harmony_score", "confidence_score",
               "image_quality_front", "image_quality_left", "image_quality_right"}

\* create_default_metrics_dict(): every sub-score 5, confidence 0.5
create_default_metrics_dict ==
    [k \in Groups \cup ScalarKeys |->
        IF k \in Groups THEN JObj([s \in GroupKeys[k] |-> JNum(Dec(5, 0))])
        ELSE IF k = "confidence_score" THEN JNum(Dec(0, 5))
        ELSE JNum(Dec(5, 0))]

(***************************************************************************)
(* LLM responses: the call raises, or it returns text that is or is not    *)
(* JSON, possibly wrapped in a code fence                                  *)
(***************************************************************************)
NotJSON == [t |-> "garbage"]

LLMError(e) == [kind |-> "error", err |-> e]

LLMText(fenced, body) == [kind |-> "text", fenced |-> fenced, body |-> body]

NoError == <<>>

\* response.text.strip(), fence and language tag removed, json.loads(text)
ParseResponse(resp) ==
    IF resp.kind = "error" THEN [raised |-> TRUE, err |-> resp.err, val |-> JNull]
    ELSE IF resp.body.t = "garbage"
         THEN [raised |-> TRUE, err |-> <<"JSONDecodeError">>, val |-> JNull]
         ELSE [raised |-> FALSE, err |-> NoError, val |-> resp.body]

(***************************************************************************)
(* GraphState and the five stages                                          *)
(***************************************************************************)
InitialState(front, left, right) ==
    [front_image |-> front, left_image |-> left, right_image |-> right,
     validation_result |-> JNull, face_metrics |-> JNull, improvements |-> JNull,
     course_mappings |-> JNull, analysis |-> JNull, error |-> NoError,
     retry_count |-> 0]

fallback_result ==
    JObj([is_valid |-> JBool(TRUE), front_quality |-> JNum(Dec(7, 0)),
          left_quality |-> JNum(Dec(7, 0)), right_quality |-> JNum(Dec(7, 0)),
          issues |-> JArr(<<>>)])

\* Step 1
validate_images(state, resp) ==
    LET p == ParseResponse(resp) IN
    IF p.raised
    THEN [state EXCEPT !.validation_result = fallback_result, !.error = p.err]
    ELSE [state EXCEPT !.validation_result = p.val, !.error = NoError]

\* the except branch of analyze_face_metrics
MetricsFailure(state, err) ==
    IF state.retry_count < 2
    THEN [state EXCEPT !.error = err, !.retry_count = @ + 1]
    ELSE [state EXCEPT !.face_metrics = JObj(create_default_metrics_dict),
                       !.error = <<"Analysis failed: ">> \o err]

\* Step 2
analyze_face_metrics(state, resp) ==
    LET p == ParseResponse(resp)
        validation == state.validation_result
        quality(k) == Get(validation.f, k, JNum(Dec(7, 0)))
        metrics_data ==
            [k \in DOMAIN p.val.f \cup {"image_quality_front", "image_quality_left", "image_quality_right"} |->
                CASE k = "image_quality_front" -> quality("front_quality")
                  [] k = "image_quality_left" -> quality("left_quality")
                  [] k = "image_quality_right" -> quality("right_quality")
                  [] OTHER -> p.val.f[k]]
    IN  IF p.raised THEN MetricsFailure(state, p.err)
        ELSE IF ~IsObj(validation) THEN MetricsFailure(state, <<"AttributeError">>)
        ELSE IF ~IsObj(p.val) THEN MetricsFailure(state, <<"TypeError">>)
        ELSE [state EXCEPT !.face_metrics = JObj(metrics_data), !.error = NoError]

\* Python truthiness of state["face_metrics"]
Falsy(v) == v.t = "null" \/ (v.t = "obj" /\ DOMAIN v.f = {})

\* generate_improvements with an except branch that leaves "improvements" unset
generate_improvements_unset(state, resp) ==
    LET p == ParseResponse(resp) IN
    IF Falsy(state.face_metrics)
    THEN [state EXCEPT !.improvements = JArr(<<>>), !.error = <<"No metrics available">>]
    ELSE IF p.raised
         THEN [state EXCEPT !.error = p.err]
         ELSE [state EXCEPT !.improvements = p.val, !.error = NoError]

\* Step 3
generate_improvements(state, resp) ==
    LET p == ParseResponse(resp) IN
    IF Falsy(state.face_metrics)
    THEN [state EXCEPT !.improvements = JArr(<<>>), !.error = <<"No metrics available">>]
    ELSE IF p.raised
         THEN [state EXCEPT !.improvements = JArr(<<>>), !.error = p.err]
         ELSE [state EXCEPT !.improvements = p.val, !.error = NoError]

\* the generate_improvements step issues its LLM call only past the metrics check
ImprovementsCallsLLM(state) == ~Falsy(state.face_metrics)

course_map ==
    << [keyword |-> <<"j", "a", "w", "l", "i", "n", "e">>, course |-> "jawline-mastery"],
       [keyword |-> <<"j", "a", "w">>, course |-> "jawline-mastery"],
       [keyword |-> <<"s", "k", "i", "n">>, course |-> "skincare-essentials"],
       [keyword |-> <<"f", "a", "t">>, course |-> "fat-loss-for-face"],
       [keyword |-> <<"b", "o", "d", "y">>, course |-> "fat-loss-for-face"],
       [keyword |-> <<"h", "a", "i", "r">>, course |-> "hair-optimization"],
       [keyword |-> <<"p", "o", "s", "t", "u", "r", "e">>, course |-> "posture-correction"] >>

\* Python iteration over a JSON value: a list yields its items, a dict its
\* keys, a str its characters; None, numbers and booleans are not iterable
Iterable(v) == v.t \in {"arr", "obj", "str"}

ListItems(v) ==
    CASE v.t = "arr" -> v.s
      [] v.t = "obj" -> [i \in 1..Cardinality(DOMAIN v.f) |-> JStr(<<SetToSeq(DOMAIN v.f)[i]>>)]
      [] v.t = "str" -> [i \in 1..Len(v.s) |-> JStr(<<v.s[i]>>)]
      [] OTHER -> <<>>

\* imp.get("area", "").lower() raises: imp has no .get, or the area no .lower
AreaRaises(imp) == ~IsObj(imp) \/ Get(imp.f, "area", JStr(<<>>)).t # "str"

\* the area label compared as written, without .lower()
area_verbatim(imp) == Get(imp.f, "area", JStr(<<>>)).s

area_lower(imp) == Lower(Get(imp.f, "area", JStr(<<>>)).s)

\* the loop of map_to_courses raises
MapRaises(improvements) ==
    \/ ~Iterable(improvements)
    \/ \E i \in 1..Len(ListItems(improvements)) : AreaRaises(ListItems(improvements)[i])

\* the set "recommended" when the loop completes
Recommended(improvements) ==
    { course_map[c].course : c \in
        { c \in 1..Len(course_map) :
            \E i \in 1..Len(ListItems(improvements)) :
                IsSubstring(course_map[c].keyword, area_lower(ListItems(improvements)[i])) } }

\* map_to_courses with an except branch that also empties "improvements"
map_to_courses_clearing(state, order) ==
    IF MapRaises(state.improvements)
    THEN [state EXCEPT !.course_mappings = JArr(<<>>), !.improvements = JArr(<<>>),
                       !.error = <<"map_to_courses failed">>]
    ELSE [state EXCEPT !.course_mappings = JArr(order)]

\* Step 4; "order" is the order in which list(recommended) lists the set
map_to_courses(state, order) ==
    IF MapRaises(state.improvements)
    THEN [state EXCEPT !.course_mappings = JArr(<<>>), !.error = <<"map_to_courses failed">>]
    ELSE [state EXCEPT !.course_mappings = JArr(order)]

CourseOrders(state) ==
    IF MapRaises(state.improvements) THEN {<<>>}
    ELSE Orderings(Recommended(state.improvements))

Take(s, n) == SubSeq(s, 1, Min(n, Len(s)))

\* metrics.get(group, {}).get(key, 0) >= 7 raises
SubScoreRaises(metrics, group, key) ==
    \/ ~IsObj(Get(metrics, group, JObj(EmptyDict)))
    \/ ~IsNum(Get(Get(metrics, group, JObj(EmptyDict)).f, key, JNum(0)))

SubScore(metrics, group, key) ==
    Get(Get(metrics, group, JObj(EmptyDict)).f, key, JNum(0)).v

CompileRaises(state) ==
    \/ ~IsObj(state.face_metrics)
    \/ SubScoreRaises(state.face_metrics.f, "jawline", "definition_score")
    \/ SubScoreRaises(state.face_metrics.f, "skin", "overall_quality")
    \/ SubScoreRaises(state.face_metrics.f, "proportions", "overall_symmetry")
    \/ ~IsNum(Get(state.face_metrics.f, "overall_score", JNum(Dec(5, 0))))

\* the potential without its cap
PotentialUncapped(overall, focus_areas) == overall + Len(focus_areas) * Dec(0, 5)

\* the potential with a whole point per focus area
PotentialWholeStep(overall, focus_areas) == Min(Dec(10, 0), overall + Len(focus_areas) * Dec(1, 0))

Potential(overall, focus_areas) == Min(Dec(10, 0), overall + Len(focus_areas) * Dec(0, 5))

\* Step 5
compile_analysis(state) ==
    IF CompileRaises(state)
    THEN [state EXCEPT !.analysis = JObj([error |-> JStr(<<"compile_analysis failed">>)]),
                       !.error = <<"compile_analysis failed">>]
    ELSE
    LET metrics == state.face_metrics.f
        jaw == SubScore(metrics, "jawline", "definition_score") >= Dec(7, 0)
        skin == SubScore(metrics, "skin", "overall_quality") >= Dec(7, 0)
        sym == SubScore(metrics, "proportions", "overall_symmetry") >= Dec(7, 0)
        strengths == (IF jaw THEN <<"Well-defined jawline">> ELSE <<>>)
                     \o (IF skin THEN <<"Good skin quality">> ELSE <<>>)
                     \o (IF sym THEN <<"Good facial symmetry">> ELSE <<>>)
        focus_areas == (IF jaw THEN <<>> ELSE <<"Jawline definition">>)
                       \o (IF skin THEN <<>> ELSE <<"Skin improvement">>)
        overall == Get(metrics, "overall_score", JNum(Dec(5, 0))).v
        potential == Potential(overall, focus_areas)
    IN [state EXCEPT !.analysis =
          JObj([metrics |-> state.face_metrics,
                improvements |-> state.improvements,
                top_strengths |-> JArr(Take(strengths, 5)),
                focus_areas |-> JArr(Take(focus_areas, 5)),
                recommended_courses |-> state.course_mappings,
                personalized_summary |->
                    JStr(<<"Your overall score is ", ToString(overall),
                           "/10. With consistent effort on your focus areas, you could reach ",
                           ToString(potential), "/10.">>),
                estimated_potential |-> JNum(potential)])]

(***************************************************************************)
(* Building the ScanAnalysis model (models/scan.py is not part of the      *)
(* sources; its field validation follows the data model of the             *)
(* specification: sub-scores in [0,10], confidence_score in [0,1])         *)
(***************************************************************************)
InRange(v, lo, hi) == IsNum(v) /\ lo <= v.v /\ v.v <= hi

\* FaceMetrics(...) accepts its keyword arguments
FaceMetricsValid(args) ==
    \A k \in DOMAIN args :
        IF k \in Groups THEN \A s \in DOMAIN args[k] : InRange(args[k][s], 0, Dec(10, 0))
        ELSE IF k = "confidence_score" THEN InRange(args[k], 0, Dec(1, 0))
        ELSE InRange(args[k], 0, Dec(10, 0))

\* ImprovementSuggestion(...) accepts its keyword arguments
ImprovementSuggestionValid(args) ==
    /\ args.area.t = "str"
    /\ IsNum(args.current_score)
    /\ IsNum(args.potential_score)
    /\ args.suggestion.t = "str"
    /\ args.exercises.t = "arr"
    /\ args.products.t = "arr"
    /\ args.timeframe.t = "str"

\* data.get(group, {}).get(k, 5) raises for a group that is no dict
GroupRaises(data) == \E g \in Groups : ~IsObj(Get(data, g, JObj(EmptyDict)))

\* build_face_metrics with 0 where a sub-score key is missing
FaceMetricsArgsZero(data) ==
    [k \in Groups \cup ScalarKeys |->
        IF k \in Groups
        THEN [s \in GroupKeys[k] |-> Get(Get(data, k, JObj(EmptyDict)).f, s, JNum(0))]
        ELSE IF k = "confidence_score" THEN Get(data, k, JNum(Dec(0, 5)))
        ELSE Get(data, k, JNum(Dec(5, 0)))]

\* the keyword arguments build_face_metrics passes to FaceMetrics
FaceMetricsArgs(data) ==
    [k \in Groups \cup ScalarKeys |->
        IF k \in Groups
        THEN [s \in GroupKeys[k] |-> Get(Get(data, k, JObj(EmptyDict)).f, s, JNum(Dec(5, 0)))]
        ELSE IF k = "confidence_score" THEN Get(data, k, JNum(Dec(0, 5)))
        ELSE Get(data, k, JNum(Dec(5, 0)))]

\* a validated FaceMetrics: the numbers themselves
FaceMetricsOf(args) ==
    [k \in DOMAIN args |->
        IF k \in Groups THEN [s \in DOMAIN args[k] |-> args[k][s].v] ELSE args[k].v]

build_face_metrics(data) ==
    IF GroupRaises(data) THEN [raised |-> TRUE, err |-> <<"AttributeError">>]
    ELSE IF ~FaceMetricsValid(FaceMetricsArgs(data))
         THEN [raised |-> TRUE, err |-> <<"ValidationError">>]
         ELSE [raised |-> FALSE, value |-> FaceMetricsOf(FaceMetricsArgs(data))]

priority_map(p) ==
    IF p.t = "str" /\ p.s \in {<<"high">>, <<"medium">>, <<"low">>} THEN p.s[1] ELSE "medium"

ImprovementArgs(data) ==
    [area |-> Get(data, "area", JStr(<<"g", "e", "n", "e", "r", "a", "l">>)),
     priority |-> priority_map(Get(data, "priority", JStr(<<"medium">>))),
     current_score |-> Get(data, "current_score", JNum(Dec(5, 0))),
     potential_score |-> Get(data, "potential_score", JNum(Dec(7, 0))),
     suggestion |-> Get(data, "suggestion", JStr(<<>>)),
     exercises |-> Get(data, "exercises", JArr(<<>>)),
     products |-> Get(data, "products", JArr(<<>>)),
     timeframe |-> Get(data, "timeframe", JStr(<<>>))]

build_improvement(imp) ==
    IF ~IsObj(imp) THEN [raised |-> TRUE, err |-> <<"AttributeError">>]
    ELSE IF ~ImprovementSuggestionValid(ImprovementArgs(imp.f))
         THEN [raised |-> TRUE, err |-> <<"ValidationError">>]
         ELSE [raised |-> FALSE,
               value |-> [area |-> ImprovementArgs(imp.f).area.s,
                          priority |-> ImprovementArgs(imp.f).priority,
                          current_score |-> ImprovementArgs(imp.f).current_score.v,
                          potential_score |-> ImprovementArgs(imp.f).potential_score.v,
                          suggestion |-> ImprovementArgs(imp.f).suggestion.s,
                          exercises |-> ImprovementArgs(imp.f).exercises.s,
                          products |-> ImprovementArgs(imp.f).products.s,
                          timeframe |-> ImprovementArgs(imp.f).timeframe.s]]

create_fallback_analysis(error) ==
    [metrics |-> build_face_metrics(create_default_metrics_dict).value,
     improvements |-> <<>>,
     top_strengths |-> <<>>,
     focus_areas |-> <<"Retry analysis">>,
     recommended_courses |-> <<>>,
     personalized_summary |-> <<"Analysis encountered an issue. Please try again. Error: ">> \o error,
     estimated_potential |-> Dec(5, 0)]

\* the ScanAnalysis(...) expression of run_face_analysis_pipeline
BuildScanAnalysis(analysis_data) ==
    LET m == build_face_metrics(Get(analysis_data, "metrics", JObj(EmptyDict)).f)
        imps == Get(analysis_data, "improvements", JArr(<<>>))
        built == [i \in 1..Len(ListItems(imps)) |-> build_improvement(ListItems(imps)[i])]
    IN  IF m.raised THEN [raised |-> TRUE, err |-> m.err]
        ELSE IF ~Iterable(imps) THEN [raised |-> TRUE, err |-> <<"TypeError">>]
        ELSE IF \E i \in 1..Len(built) : built[i].raised
             THEN [raised |-> TRUE, err |-> <<"ValidationError">>]
             ELSE [raised |-> FALSE,
                   value |->
                     [metrics |-> m.value,
                      improvements |-> [i \in 1..Len(built) |-> built[i].value],
                      top_strengths |-> Get(analysis_data, "top_strengths", JArr(<<>>)).s,
                      focus_areas |-> Get(analysis_data, "focus_areas", JArr(<<>>)).s,
                      recommended_courses |-> Get(analysis_data, "recommended_courses", JArr(<<>>)).s,
                      personalized_summary |-> Get(analysis_data, "personalized_summary", JStr(<<>>)).s,
                      estimated_potential |-> Get(analysis_data, "estimated_potential", JNum(Dec(5, 0))).v]]

\* the final construction without its try / except
ConvertUncaught(state) == BuildScanAnalysis(state.analysis.f)

\* "Convert to ScanAnalysis": the try / except that ends run_face_analysis_pipeline
ConvertToScanAnalysis(state) ==
    LET b == BuildScanAnalysis(state.analysis.f) IN
    IF b.raised THEN [raised |-> FALSE, value |-> create_fallback_analysis(b.err)]
    ELSE b

(***************************************************************************)
(* Frame extraction.  A video is what OpenCV reports of it: the frame      *)
(* rate (0 when unknown), the frame count, the positions at which a        *)
(* seek-and-read succeeds, and whether opening it raises.  Frame i is      *)
(* encoded to the non-empty buffer <<i>>; b"" is <<>>.                     *)
(***************************************************************************)
imencode(frame) == <<frame>>

\* cap.set(POS_FRAMES, pos); cap.read()
Read(video, pos) == pos \in video.readable

\* the sampled index without the clamp to the video length
SafeIdxUnclamped(video, idx) == idx

SafeIdx(video, idx) == Min(idx, video.total_frames - 1)

Indices(video) ==
    LET fps == IF video.fps = 0 THEN 30 ELSE video.fps
    IN  << (5 * fps) \div 10, 5 * fps, 14 * fps >>

\* the loop body without the fall back to frame 0: a failed read yields b""
FrameForEmpty(video, idx) ==
    IF Read(video, SafeIdx(video, idx))
    THEN [raised |-> FALSE, buffer |-> imencode(SafeIdx(video, idx))]
    ELSE [raised |-> FALSE, buffer |-> <<>>]

\* one iteration of the loop over indices
FrameFor(video, idx) ==
    IF Read(video, SafeIdx(video, idx))
    THEN [raised |-> FALSE, buffer |-> imencode(SafeIdx(video, idx))]
    ELSE IF Read(video, 0)
         THEN [raised |-> FALSE, buffer |-> imencode(0)]
         ELSE [raised |-> TRUE, buffer |-> <<>>]

RECURSIVE Pad(_)
Pad(frames) ==
    IF Len(frames) < 3
    THEN Pad(Append(frames, IF Len(frames) > 0 THEN frames[Len(frames)] ELSE <<>>))
    ELSE frames

\* the iterations of the loop over indices that are entered: the loop ends
\* with the first iteration that raises
Iterations(video) ==
    LET got == [i \in 1..3 |-> FrameFor(video, Indices(video)[i])]
    IN  IF \E i \in 1..3 : got[i].raised
        THEN CHOOSE i \in 1..3 : got[i].raised /\ \A j \in 1..(i - 1) : ~got[j].raised
        ELSE 3

\* "seeks": the positions safe_idx passed to cap.set, in order;
\* "temp_exists": the staged file is still there when the function exits.
\* When cv2.VideoCapture raises, "cap" is unbound in the finally clause,
\* cap.release() raises in its turn and os.remove is not reached.
extract_frames_from_video(video) ==
    LET got == [i \in 1..3 |-> FrameFor(video, Indices(video)[i])]
        seeks == [i \in 1..Iterations(video) |-> SafeIdx(video, Indices(video)[i])]
    IN  IF video.open_raises
        THEN [raised |-> TRUE, err |-> <<"UnboundLocalError">>, frames |-> <<>>,
              seeks |-> <<>>, temp_exists |-> TRUE]
        ELSE IF \E i \in 1..3 : got[i].raised
             THEN [raised |-> TRUE, err |-> <<"cv2.error">>, frames |-> <<>>,
                   seeks |-> seeks, temp_exists |-> FALSE]
             ELSE [raised |-> FALSE, err |-> NoError,
                   frames |-> SubSeq(Pad([i \in 1..3 |-> got[i].buffer]), 1, 3),
                   seeks |-> seeks, temp_exists |-> FALSE]

(***************************************************************************)
(* The measurement-service client (FacialAnalysisClient)                   *)
(***************************************************************************)
\* Python truthiness, as the "or" chains of _map_to_scan_analysis use it
Truthy(v) ==
    CASE v.t = "null" -> FALSE
      [] v.t = "num" -> v.v # 0
      [] v.t = "bool" -> v.b
      [] v.t = "str" -> v.s # <<>>
      [] v.t = "arr" -> v.s # <<>>
      [] v.t = "obj" -> DOMAIN v.f # {}

\* a or b
Or(a, b) == IF Truthy(a) THEN a ELSE b

\* the strings float() parses
NumericText == [s \in {<<"8.5">>, <<"12">>} |-> IF s = <<"8.5">> THEN Dec(8, 5) ELSE Dec(12, 0)]

\* float(v) raises
FloatRaises(v) ==
    CASE v.t = "num" -> FALSE
      [] v.t = "bool" -> FALSE
      [] v.t = "str" -> v.s \notin DOMAIN NumericText
      [] OTHER -> TRUE

\* float(v)
FloatOf(v) ==
    CASE v.t = "num" -> v.v
      [] v.t = "bool" -> IF v.b THEN Dec(1, 0) ELSE 0
      [] v.t = "str" -> NumericText[v.s]

\* max(0.0, min(10.0, x))
Clamp(x) == Max(0, Min(Dec(10, 0), x))

\* max(0.0, min(10.0, float(v)))
ClampFloat(v) ==
    IF FloatRaises(v) THEN [raised |-> TRUE, value |-> JNull]
    ELSE [raised |-> FALSE, value |-> JNum(Clamp(FloatOf(v)))]

\* val reading the raw "value" before the "score"
val_prefers_value(view, key, default) ==
    IF ~IsObj(view) THEN [raised |-> TRUE, value |-> JNull]
    ELSE LET item == Get(view.f, key, JNull) IN
         IF item.t = "null" THEN [raised |-> FALSE, value |-> default]
         ELSE IF IsObj(item)
              THEN LET score == Get(item.f, "score", JNull)
                       value == Get(item.f, "value", JNull)
                   IN  IF value.t # "null" THEN ClampFloat(value)
                       ELSE IF score.t # "null" THEN ClampFloat(score)
                       ELSE [raised |-> FALSE, value |-> default]
              ELSE ClampFloat(item)

\* the closure val(view, key, default) of _map_to_scan_analysis
val(view, key, default) ==
    IF ~IsObj(view) THEN [raised |-> TRUE, value |-> JNull]
    ELSE LET item == Get(view.f, key, JNull) IN
         IF item.t = "null" THEN [raised |-> FALSE, value |-> default]
         ELSE IF IsObj(item)
              THEN LET score == Get(item.f, "score", JNull)
                       value == Get(item.f, "value", JNull)
                   IN  IF score.t # "null" THEN ClampFloat(score)
                       ELSE IF value.t # "null" THEN ClampFloat(value)
                       ELSE [raised |-> FALSE, value |-> default]
              ELSE ClampFloat(item)

\* which measurement feeds which sub-score; every other sub-score is the
\* literal 5.0
MeasurementOf ==
    [jawline |-> [definition_score |-> <<"front", "jaw_cheek_ratio">>,
                  symmetry_score |-> <<"front", "symmetry_score">>,
                  chin_projection |-> <<"profile", "chin_projection">>],
     cheekbones |-> [width_score |-> <<"front", "face_width_height_ratio">>,
                     symmetry_score |-> <<"front", "symmetry_score">>],
     eye_area |-> [upper_eyelid_exposure |-> <<"front", "ear_left">>,
                   palpebral_fissure_height |-> <<"front", "ear_right">>,
                   symmetry_score |-> <<"front", "symmetry_score">>],
     nose |-> [tip_projection |-> <<"profile", "nasolabial_angle">>,
               nostril_symmetry |-> <<"front", "nose_width_ratio">>],
     lips |-> [philtrum_definition |-> <<"front", "philtrum_length_mm">>],
     forehead |-> [forehead_symmetry |-> <<"front", "symmetry_score">>],
     skin |-> EmptyDict,
     proportions |-> [facial_thirds_balance |-> <<"front", "midface_ratio">>,
                      upper_third_score |-> <<"front", "facial_third_upper_mm">>,
                      middle_third_score |-> <<"front", "facial_third_mid_mm">>,
                      lower_third_score |-> <<"front", "facial_third_lower_mm">>,
                      horizontal_fifths_balance |-> <<"front", "esr">>,
                      overall_symmetry |-> <<"front", "symmetry_score">>,
                      facial_convexity |-> <<"profile", "facial_convexity">>],
     profile |-> [nose_projection |-> <<"profile", "nasolabial_angle">>,
                  lip_projection |-> <<"profile", "mentolabial_angle">>,
                  chin_projection |-> <<"profile", "chin_projection">>,
                  profile_harmony |-> <<"profile", "facial_convexity">>],
     hair |-> EmptyDict,
     body_fat |-> EmptyDict]

\* the measurements read for the descriptive eye fields (canthal_tilt,
\* canthal_tilt_degrees, eye_spacing_ratio)
DescriptiveReads == {<<"front", "canthal_tilt_left">>, <<"front", "esr">>}

\* the top-level sections of the response, as _map_to_scan_analysis binds them
Sections(data) ==
    [measurements |-> Get(data, "measurements", JObj(EmptyDict)),
     summary |-> Get(data, "scan_summary", JObj(EmptyDict)),
     golden |-> Get(data, "golden_ratio_analysis", JObj(EmptyDict)),
     ai_recs |-> Or(Get(data, "ai_recommendations", JNull), JObj(EmptyDict))]

View(sec, name) ==
    IF name = "front" THEN Get(sec.measurements.f, "front_view", JObj(EmptyDict))
    ELSE Get(sec.measurements.f, "profile_view", JObj(EmptyDict))

\* the argument of float() in the overall_score expression
OverallSource(sec) ==
    Or(Or(Get(sec.summary.f, "overall_score", JNull), Get(sec.golden.f, "average_score", JNull)),
       JNum(Dec(5, 0)))

GoldenSource(sec) == Or(Get(sec.golden.f, "average_score", JNull), JNum(Dec(5, 0)))

\* ai_recs.get("recommendations", []) if isinstance(ai_recs, dict) else []
RawRecs(sec) ==
    IF IsObj(sec.ai_recs) THEN Get(sec.ai_recs.f, "recommendations", JArr(<<>>)) ELSE JArr(<<>>)

\* the keyword arguments of ImprovementSuggestion for one recommendation
RecommendationArgs(rec) ==
    [area |-> Get(rec, "title", JStr(<<"General">>)),
     priority |-> "medium",
     current_score |-> JNum(Dec(5, 0)),
     potential_score |-> JNum(Dec(7, 0)),
     suggestion |-> Get(rec, "description", Get(rec, "suggestion", JStr(<<>>))),
     exercises |-> JArr(<<>>),
     products |-> JArr(<<>>),
     timeframe |-> JStr(<<"3 months">>)]

\* the dict entries of raw_recs, in order
RECURSIVE DictsOf(_)
DictsOf(items) ==
    IF items = <<>> THEN <<>>
    ELSE (IF IsObj(Head(items)) THEN <<Head(items)>> ELSE <<>>) \o DictsOf(Tail(items))

Strengths(sec) ==
    LET st == IF IsObj(sec.ai_recs) THEN Get(sec.ai_recs.f, "strengths", JArr(<<>>)) ELSE JArr(<<>>)
    IN  IF st.t = "arr" THEN st ELSE JArr(<<>>)

SummaryText(sec) ==
    IF IsObj(sec.ai_recs) THEN Get(sec.ai_recs.f, "summary", JStr(<<"Analysis complete.">>))
    ELSE JStr(<<"Analysis complete.">>)

\* the keyword arguments _map_to_scan_analysis passes to FaceMetrics
ClientMetricsArgs(sec, overall_score) ==
    [k \in Groups \cup ScalarKeys |->
        IF k \in Groups
        THEN [s \in GroupKeys[k] |->
                IF s \in DOMAIN MeasurementOf[k]
                THEN val(View(sec, MeasurementOf[k][s][1]), MeasurementOf[k][s][2], JNum(Dec(5, 0))).value
                ELSE IF k = "proportions" /\ s = "golden_ratio_adherence"
                     THEN ClampFloat(GoldenSource(sec)).value
                     ELSE JNum(Dec(5, 0))]
        ELSE CASE k = "overall_score" -> JNum(overall_score)
               [] k = "harmony_score" -> val(View(sec, "front"), "symmetry_score", JNum(overall_score)).value
               [] k = "confidence_score" -> JNum(Dec(0, 9))
               [] OTHER -> JNum(Dec(8, 0))]

\* an exception leaves _map_to_scan_analysis
MapToScanAnalysisRaises(data) ==
    \/ ~IsObj(data)
    \/ LET sec == Sections(data.f) IN
       \/ ~IsObj(sec.measurements)
       \/ ~IsObj(sec.summary)
       \/ ~IsObj(sec.golden)
       \/ FloatRaises(OverallSource(sec))
       \/ \E g \in Groups : \E s \in DOMAIN MeasurementOf[g] :
             val(View(sec, MeasurementOf[g][s][1]), MeasurementOf[g][s][2], JNull).raised
       \/ \E r \in DescriptiveReads : val(View(sec, r[1]), r[2], JNull).raised
       \/ FloatRaises(GoldenSource(sec))
       \/ ~FaceMetricsValid(ClientMetricsArgs(sec, Clamp(FloatOf(OverallSource(sec)))))
       \/ ~Iterable(RawRecs(sec))
       \/ \E i \in 1..Len(DictsOf(ListItems(RawRecs(sec)))) :
             ~ImprovementSuggestionValid(RecommendationArgs(DictsOf(ListItems(RawRecs(sec)))[i].f))
       \/ \E i \in 1..Len(Strengths(sec).s) : Strengths(sec).s[i].t # "str"
       \/ SummaryText(sec).t # "str"

_map_to_scan_analysis(data) ==
    LET sec == Sections(data.f)
        overall_score == Clamp(FloatOf(OverallSource(sec)))
        recs == DictsOf(ListItems(RawRecs(sec)))
    IN  [metrics |-> FaceMetricsOf(ClientMetricsArgs(sec, overall_score)),
         improvements |->
            [i \in 1..Len(recs) |->
                [area |-> RecommendationArgs(recs[i].f).area.s,
                 priority |-> "medium",
                 current_score |-> Dec(5, 0),
                 potential_score |-> Dec(7, 0),
                 suggestion |-> RecommendationArgs(recs[i].f).suggestion.s,
                 exercises |-> <<>>,
                 products |-> <<>>,
                 timeframe |-> <<"3 months">>]],
         top_strengths |-> [i \in 1..Len(Strengths(sec).s) |-> Strengths(sec).s[i].s],
         focus_areas |-> <<>>,
         recommended_courses |-> <<>>,
         personalized_summary |-> SummaryText(sec).s,
         estimated_potential |-> Min(Dec(10, 0), overall_score + Dec(1, 0))]

\* FacialProportions(...) of _create_error_analysis passes no
\* horizontal_fifths_balance; the field then takes the data model's default,
\* the scale midpoint
horizontal_fifths_default == Dec(5, 0)

_create_error_analysis(error_msg) ==
    [metrics |-> [k \in Groups \cup ScalarKeys |->
                    IF k \in Groups
                    THEN [s \in GroupKeys[k] |->
                            IF k = "proportions" /\ s = "horizontal_fifths_balance"
                            THEN horizontal_fifths_default ELSE 0]
                    ELSE 0],
     improvements |-> <<>>,
     top_strengths |-> <<>>,
     focus_areas |-> <<>>,
     recommended_courses |-> <<>>,
     personalized_summary |-> <<"Analysis service unavailable: ">> \o error_msg,
     estimated_potential |-> 0]

\* a response of the measurement service: the request raises, the status is
\* an error, or a body arrives that is or is not JSON
ServiceError(e) == [kind |-> "exception", err |-> e]

ServiceStatus(code, detail) == [kind |-> "status", code |-> code, detail |-> detail]

ServiceBody(body) == [kind |-> "body", body |-> body]

\* the try / except of upload_video
upload_video(resp) ==
    CASE resp.kind = "exception" -> _create_error_analysis(resp.err)
      [] resp.kind = "status" ->
            _create_error_analysis(<<"Analysis service returned ", resp.code, ": ", resp.detail>>)
      [] resp.kind = "body" ->
            IF resp.body.t = "garbage" THEN _create_error_analysis(<<"JSONDecodeError">>)
            ELSE IF MapToScanAnalysisRaises(resp.body)
                 THEN _create_error_analysis(<<"_map_to_scan_analysis failed">>)
                 ELSE _map_to_scan_analysis(resp.body)

\* the try / except of analyze_frames
analyze_frames(resp) ==
    CASE resp.kind = "exception" -> _create_error_analysis(resp.err)
      [] resp.kind = "status" ->
            _create_error_analysis(<<"Analysis service returned ", resp.code, ": ", resp.detail>>)
      [] resp.kind = "body" ->
            IF resp.body.t = "garbage" THEN _create_error_analysis(<<"JSONDecodeError">>)
            ELSE IF MapToScanAnalysisRaises(resp.body)
                 THEN _create_error_analysis(<<"_map_to_scan_analysis failed">>)
                 ELSE _map_to_scan_analysis(resp.body)

(***************************************************************************)
(* What the environment can send: videos and LLM responses                 *)
(***************************************************************************)
Absent == [t |-> "absent"]

\* a dict from a set of <<key, value>> pairs
Dict(pairs) == [k \in {p[1] : p \in pairs} |-> (CHOOSE p \in pairs : p[1] = k)[2]]

Opt(k, v) == IF v.t = "absent" THEN {} ELSE {<<k, v>>}

\* a region group of a metrics payload: the probed key and, when "full", every
\* other sub-score of the group at 6
GroupPairs(g, key, v, full) ==
    CASE v.t = "nogroup" -> {}
      [] v.t = "nullgroup" -> {<<g, JNull>>}
      [] OTHER -> {<<g, JObj(Dict(Opt(key, v) \cup
                     (IF full THEN {<<k, JNum(Dec(6, 0))>> : k \in GroupKeys[g] \ {key}} ELSE {})))>>}

MetricsPayload(ov, jaw, sq, variant) ==
    JObj(Dict(
        Opt("overall_score", ov)
        \cup Opt("confidence_score", variant.conf)
        \cup (IF variant.full THEN {<<"harmony_score", JNum(Dec(6, 0))>>} ELSE {})
        \cup GroupPairs("jawline", "definition_score", jaw, variant.full)
        \cup GroupPairs("skin", "overall_quality", sq, variant.full)
        \cup GroupPairs("proportions", "overall_symmetry", variant.sym, variant.full)
        \cup (IF variant.full
              THEN {<<g, JObj([k \in GroupKeys[g] |-> JNum(Dec(6, 0))])>> :
                       g \in Groups \ {"jawline", "skin", "proportions"}}
              ELSE {})))

OverallValues == {Absent, JNull, JNum(Dec(-1, 0)), JNum(0), JNum(Dec(6, 5)), JNum(Dec(10, 0)), JNum(Dec(11, 0))}

JawValues == {[t |-> "nogroup"], [t |-> "nullgroup"], Absent, JNull,
              JNum(Dec(6, 0)), JNum(Dec(8, 0)), JNum(Dec(11, 0))}

SkinValues == {Absent, JNum(Dec(4, 0)), JNum(Dec(7, 0))}

Variants == {[sym |-> Absent, conf |-> Absent, full |-> FALSE],
             [sym |-> JNum(Dec(8, 0)), conf |-> JNum(8), full |-> TRUE],
             [sym |-> JNum(Dec(8, 0)), conf |-> JNum(12), full |-> TRUE],
             [sym |-> JNum(Dec(6, 0)), conf |-> JNum(8), full |-> FALSE]}

MetricsPayloads ==
    { MetricsPayload(ov, jaw, sq, variant) :
        ov \in OverallValues, jaw \in JawValues, sq \in SkinValues, variant \in Variants }

Failures == {LLMError(<<"DeadlineExceeded">>), LLMText(FALSE, NotJSON)}

MetricsResponses ==
    Failures \cup {LLMText(FALSE, JArr(<<>>))}
    \cup {LLMText(fenced, body) : fenced \in {TRUE}, body \in MetricsPayloads}

ValidationResponses ==
    Failures \cup
    { LLMText(TRUE, JArr(<<>>)),
      LLMText(FALSE, JObj(EmptyDict)),
      LLMText(TRUE, JObj([is_valid |-> JBool(TRUE), front_quality |-> JNum(Dec(8, 0)),
                          left_quality |-> JNum(Dec(7, 0)), right_quality |-> JNum(Dec(7, 0)),
                          issues |-> JArr(<<>>)])),
      LLMText(FALSE, JObj([is_valid |-> JBool(FALSE), front_quality |-> JNum(Dec(11, 0))])) }

Chars(label) ==
    CASE label = "Jawline" -> <<"J", "a", "w", "l", "i", "n", "e">>
      [] label = "SKIN" -> <<"S", "K", "I", "N">>
      [] label = "skin texture" -> <<"s", "k", "i", "n", " ", "t", "e", "x", "t", "u", "r", "e">>
      [] label = "Body Fat" -> <<"B", "o", "d", "y", " ", "F", "a", "t">>
      [] label = "Hairline" -> <<"H", "a", "i", "r", "l", "i", "n", "e">>
      [] label = "Posture" -> <<"P", "o", "s", "t", "u", "r", "e">>
      [] label = "eyes" -> <<"e", "y", "e", "s">>
      [] label = "ski" -> <<"s", "k", "i">>
      [] label = "" -> <<>>

AreaLabels == {"Jawline", "SKIN", "skin texture", "Body Fat", "Hairline", "Posture", "eyes", "ski", ""}

\* improvement entries an LLM can return: well formed, without an area, with
\* an area that is no string, with a current_score that is no number, no dict
ImprovementEntries ==
    { JObj([area |-> JStr(Chars(l)), priority |-> JStr(<<"high">>), current_score |-> JNum(Dec(5, 0))]) :
        l \in AreaLabels }
    \cup { JObj([priority |-> JStr(<<"urgent">>)]),
           JObj([area |-> JNull]),
           JObj([area |-> JStr(Chars("SKIN")), current_score |-> JStr(<<"low">>)]),
           JStr(<<"jawline">>) }

Entry(l) == JObj([area |-> JStr(Chars(l)), priority |-> JStr(<<"high">>), current_score |-> JNum(Dec(5, 0))])

ImprovementResponses ==
    Failures \cup
    { LLMText(TRUE, JNull),
      LLMText(FALSE, JArr(<<>>)),
      LLMText(TRUE, JArr(<<Entry("SKIN")>>)),
      LLMText(FALSE, JArr(<<Entry("Jawline"), Entry("skin texture"), Entry("eyes")>>)),
      LLMText(FALSE, JArr(<<Entry("SKIN"), JObj([area |-> JNull])>>)),
      LLMText(FALSE, JObj([improvements |-> JArr(<<Entry("SKIN")>>)])) }

(***************************************************************************)
(* The scan read paths (api/scans.py) and the subscription gate.  A user   *)
(* is the document get_current_user returns; "expired" says that its       *)
(* subscription_end_date is a datetime in the past.  A stored analysis is  *)
(* the model_dump() of a ScanAnalysis; a scan without one carries NoResult.*)
(***************************************************************************)
NoResult == [none |-> TRUE]

\* require_paid_user raises 402
\* require_paid_user without the check of the subscription end date
require_paid_user_unexpiring(user) ==
    IF user.is_admin THEN FALSE
    ELSE ~user.is_paid

require_paid_user(user) ==
    IF user.is_admin THEN FALSE
    ELSE IF ~user.is_paid THEN TRUE
    ELSE user.expired

Refused == [status |-> 402, body |-> NoResult]

NotFound == [status |-> 404, body |-> NoResult]

\* the scans of a user, most recent first
RECURSIVE SortedByCreatedAt(_, _)
SortedByCreatedAt(db, ids) ==
    IF ids = {} THEN <<>>
    ELSE LET i == CHOOSE x \in ids : \A y \in ids : db[y].created_at <= db[x].created_at
         IN  <<db[i]>> \o SortedByCreatedAt(db, ids \ {i})

ScansOf(user, db) == SortedByCreatedAt(db, {i \in 1..Len(db) : db[i].user_id = user.id})

\* analysis.get("overall_score") or analysis.get("metrics", {}).get("overall_score")
RedactedOverall(analysis) ==
    Or(IF "overall_score" \in DOMAIN analysis THEN JNum(analysis.overall_score) ELSE JNull,
       IF "metrics" \in DOMAIN analysis /\ "overall_score" \in DOMAIN analysis.metrics
       THEN JNum(analysis.metrics.overall_score) ELSE JNull)

\* get_latest_scan without the redaction branch
get_latest_scan_unredacted(user, db) ==
    IF ScansOf(user, db) = <<>> THEN NotFound
    ELSE LET scan == ScansOf(user, db)[1]
             shown == [id |-> scan.id, created_at |-> scan.created_at, images |-> scan.images,
                       is_unlocked |-> user.is_paid, processing_status |-> scan.processing_status]
         IN  [status |-> 200,
              body |-> IF scan.analysis = NoResult THEN shown
                       ELSE shown @@ [analysis |-> scan.analysis]]

get_latest_scan(user, db) ==
    IF ScansOf(user, db) = <<>> THEN NotFound
    ELSE LET scan == ScansOf(user, db)[1]
             shown == [id |-> scan.id, created_at |-> scan.created_at, images |-> scan.images,
                       is_unlocked |-> user.is_paid, processing_status |-> scan.processing_status]
         IN  [status |-> 200,
              body |-> IF scan.analysis = NoResult THEN shown
                       ELSE IF user.is_paid THEN shown @@ [analysis |-> scan.analysis]
                       ELSE shown @@ [analysis |-> [overall_score |-> RedactedOverall(scan.analysis),
                                                    locked |-> TRUE]]]

get_scan_history(user, limit, db) ==
    IF require_paid_user(user) THEN Refused
    ELSE LET mine == Take(ScansOf(user, db), limit) IN
         [status |-> 200,
          body |-> [scans |->
                     [i \in 1..Len(mine) |->
                        [id |-> mine[i].id, created_at |-> mine[i].created_at,
                         overall_score |->
                            IF mine[i].analysis = NoResult THEN JNull
                            ELSE JNum(mine[i].analysis.metrics.overall_score)]]]]

get_scan_by_id(user, scan_id, db) ==
    IF require_paid_user(user) THEN Refused
    ELSE IF \A i \in 1..Len(db) : ~(db[i].id = scan_id /\ db[i].user_id = user.id) THEN NotFound
    ELSE LET scan == db[CHOOSE i \in 1..Len(db) : db[i].id = scan_id /\ db[i].user_id = user.id] IN
         [status |-> 200,
          body |-> [id |-> scan.id, created_at |-> scan.created_at, images |-> scan.images,
                    analysis |-> scan.analysis, processing_status |-> scan.processing_status]]

\* the response to one read request
Serve(request, user, db) ==
    CASE request.handler = "get_latest_scan" -> get_latest_scan(user, db)
      [] request.handler = "get_scan_history" -> get_scan_history(user, request.arg, db)
      [] request.handler = "get_scan_by_id" -> get_scan_by_id(user, request.arg, db)

(***************************************************************************)
(* Responses of the measurement service                                    *)
(***************************************************************************)
\* one measurement entry: a bare number, or a dict that may carry a score
\* and a raw value
MeasurementEntries ==
    { Absent, JNull, JNum(Dec(85, 0)), JStr(<<"n/a">>),
      JObj([value |-> JNum(Dec(125, 0))]),
      JObj([value |-> JNum(Dec(-3, 0))]),
      JObj([value |-> JNum(Dec(125, 0)), score |-> JNum(Dec(8, 0))]),
      JObj([value |-> JNum(Dec(6, 5)), score |-> JNull]),
      JObj([rating |-> JStr(<<"Ideal">>)]) }

Recommendations ==
    { Absent, JNull, JStr(<<"none">>),
      JObj([summary |-> JStr(<<"Balanced proportions.">>),
            strengths |-> JArr(<<JStr(<<"s1">>), JStr(<<"s2">>), JStr(<<"s3">>),
                                 JStr(<<"s4">>), JStr(<<"s5">>), JStr(<<"s6">>)>>),
            recommendations |-> JArr(<<JObj([title |-> JStr(<<"Jawline">>),
                                             description |-> JStr(<<"Chew.">>)]),
                                       JStr(<<"x">>)>>)]),
      JObj([recommendations |-> JNull]),
      JObj([recommendations |-> JArr(<<JObj([title |-> JNull])>>)]) }

ServiceData(ov, avg, sym, jaw, recs) ==
    JObj(Dict(
        Opt("scan_summary", IF ov.t = "nogroup" THEN Absent ELSE JObj(Dict(Opt("overall_score", ov))))
        \cup Opt("golden_ratio_analysis", JObj(Dict(Opt("average_score", avg))))
        \cup {<<"measurements",
                JObj([front_view |-> JObj(Dict(Opt("symmetry_score", sym) \cup Opt("jaw_cheek_ratio", jaw))),
                      profile_view |-> JObj([chin_projection |-> JObj([value |-> JNum(Dec(4, 2))])])])>>}
        \cup Opt("ai_recommendations", recs)))

ServiceOverallValues ==
    {[t |-> "nogroup"], Absent, JNull, JNum(0), JNum(Dec(8, 5)), JNum(Dec(9, 5)), JNum(Dec(12, 0)),
     JNum(Dec(-1, 0)), JStr(<<"8.5">>), JStr(<<"n/a">>)}

ServiceAverageValues == {Absent, JNum(0), JNum(Dec(7, 0)), JNum(Dec(15, 0))}

ServiceResponses ==
    { ServiceError(<<"ConnectTimeout">>),
      ServiceStatus("503", "unavailable"),
      ServiceBody(NotJSON),
      ServiceBody(JArr(<<>>)),
      ServiceBody(JObj(EmptyDict)),
      ServiceBody(JObj([measurements |-> JNull])),
      ServiceBody(JObj([measurements |-> JObj([front_view |-> JNull])])),
      ServiceBody(JObj([scan_summary |-> JNull])) }
    \cup { ServiceBody(ServiceData(ov, avg, sym, JNum(Dec(1, 2)), recs)) :
             ov \in ServiceOverallValues, avg \in ServiceAverageValues,
             sym \in MeasurementEntries, recs \in Recommendations }

(***************************************************************************)
(* One analysis request                                                    *)
(***************************************************************************)
Request(kind) == [kind |-> kind, fps |-> 0, total_frames |-> 0, readable |-> {}, open_raises |-> FALSE]

Images == Request("images")

Video(fps, total, readable, open_raises) ==
    [kind |-> "video", fps |-> fps, total_frames |-> total, readable |-> readable,
     open_raises |-> open_raises]

\* inputs of the LLM pipeline: three images, or a video that decodes, one
\* that does not, one whose container cannot be opened
PipelineInputs ==
    { Images,
      Video(30, 450, {15, 150, 420, 0}, FALSE),
      Video(0, 0, {}, FALSE),
      Video(30, 450, {0}, TRUE) }

\* requests to the measurement-service client
ServiceInputs == {Request("service_video"), Request("service_frames")}

(***************************************************************************)
(* State.                                                                  *)
(*   pc, input, state, result, escaped   one analysis request in progress  *)
(*   extraction   what extract_frames_from_video did: the positions it    *)
(*            sought and whether its temporary file is left behind         *)
(*   trace    the stages run so far, in order                              *)
(*   failed   the stages that took their except branch                     *)
(*   val_in, val_out    one application of val                             *)
(*   caller, scans, response   the scan read paths                         *)
(*   db, procs    the scans and leaderboard collections, and the           *)
(*            analyze_scan / get_my_rank requests in flight                *)
(*   ranking  history of the rank recomputations: which one has run with   *)
(*            no step of another request in between, and whether an        *)
(*            interleaved one has left ranks that contradict the scores    *)
(***************************************************************************)
VARIABLES pc, input, state, result, escaped, trace, failed, extraction,
          val_in, val_out, caller, scans, response, db, procs, ranking

pipeVars == <<pc, input, state, result, escaped, trace, failed, extraction>>

valVars == <<val_in, val_out>>

gateVars == <<caller, scans, response>>

scanVars == <<db, procs, ranking>>

vars == <<pipeVars, valVars, gateVars, scanVars>>

NoState == InitialState(<<>>, <<>>, <<>>)

\* the except clause without its message prefix
VideoFallbackBare(err) == create_fallback_analysis(err)

\* the except clause of run_video_analysis_pipeline
VideoFallback(err) == create_fallback_analysis(<<"Video extraction failed", ": ">> \o err)

\* an exception leaves run_face_analysis_pipeline: run_video_analysis_pipeline
\* catches it, a caller of the image pipeline receives it
Leave(err) ==
    IF input.kind = "images"
    THEN /\ escaped' = TRUE
         /\ result' = NoResult
    ELSE /\ escaped' = FALSE
         /\ result' = VideoFallback(err)

\* run_face_analysis_pipeline(front, left, right) up to its first await
RunFaceAnalysisPipeline ==
    /\ pc = "idle"
    /\ input.kind = "images"
    /\ state' = InitialState(<<1>>, <<2>>, <<3>>)
    /\ pc' = "validate"
    /\ UNCHANGED <<input, result, escaped, trace, failed, extraction, valVars, gateVars, scanVars>>

\* run_video_analysis_pipeline(video_data) up to its first await
RunVideoAnalysisPipeline ==
    /\ pc = "idle"
    /\ input.kind = "video"
    /\ LET r == extract_frames_from_video(input) IN
       /\ IF r.raised
          THEN /\ result' = VideoFallback(r.err)
               /\ pc' = "done"
               /\ failed' = failed \cup {"extract"}
               /\ UNCHANGED state
          ELSE /\ state' = InitialState(r.frames[1], r.frames[2], r.frames[3])
               /\ pc' = "validate"
               /\ UNCHANGED <<result, failed>>
       /\ extraction' = [seeks |-> r.seeks, temp_exists |-> r.temp_exists]
    /\ UNCHANGED <<input, escaped, trace, valVars, gateVars, scanVars>>

ValidateImages ==
    /\ pc = "validate"
    /\ \E resp \in ValidationResponses :
          /\ state' = validate_images(state, resp)
          /\ failed' = IF ParseResponse(resp).raised THEN failed \cup {"validate"} ELSE failed
    /\ pc' = "metrics"
    /\ trace' = Append(trace, "validate")
    /\ UNCHANGED <<input, result, escaped, extraction, valVars, gateVars, scanVars>>

AnalyzeFaceMetrics ==
    /\ pc = "metrics"
    /\ \E resp \in MetricsResponses :
          /\ state' = analyze_face_metrics(state, resp)
          /\ failed' = IF state'.error # NoError THEN failed \cup {"metrics"} ELSE failed
    /\ pc' = "improvements"
    /\ trace' = Append(trace, "metrics")
    /\ UNCHANGED <<input, result, escaped, extraction, valVars, gateVars, scanVars>>

GenerateImprovements ==
    /\ pc = "improvements"
    /\ \E resp \in ImprovementResponses :
          /\ state' = generate_improvements(state, resp)
          /\ failed' = IF ImprovementsCallsLLM(state) /\ ParseResponse(resp).raised
                       THEN failed \cup {"improvements"} ELSE failed
    /\ pc' = "courses"
    /\ trace' = Append(trace, "improvements")
    /\ UNCHANGED <<input, result, escaped, extraction, valVars, gateVars, scanVars>>

MapToCourses ==
    /\ pc = "courses"
    /\ \E order \in CourseOrders(state) : state' = map_to_courses(state, order)
    /\ failed' = IF MapRaises(state.improvements) THEN failed \cup {"courses"} ELSE failed
    /\ pc' = "compile"
    /\ trace' = Append(trace, "courses")
    /\ UNCHANGED <<input, result, escaped, extraction, valVars, gateVars, scanVars>>

CompileAnalysis ==
    /\ pc = "compile"
    /\ state' = compile_analysis(state)
    /\ failed' = IF CompileRaises(state) THEN failed \cup {"compile"} ELSE failed
    /\ pc' = "convert"
    /\ trace' = Append(trace, "compile")
    /\ UNCHANGED <<input, result, escaped, extraction, valVars, gateVars, scanVars>>

Convert ==
    /\ pc = "convert"
    /\ LET r == ConvertToScanAnalysis(state) IN
       IF r.raised THEN Leave(r.err)
       ELSE /\ result' = r.value
            /\ escaped' = FALSE
    /\ failed' = IF BuildScanAnalysis(state.analysis.f).raised THEN failed \cup {"convert"} ELSE failed
    /\ pc' = "done"
    /\ UNCHANGED <<input, state, trace, extraction, valVars, gateVars, scanVars>>

\* FacialAnalysisClient.upload_video(video_bytes)
UploadVideo ==
    /\ pc = "idle"
    /\ input.kind = "service_video"
    /\ \E resp \in ServiceResponses :
          /\ result' = upload_video(resp)
          /\ failed' = IF resp.kind = "body" /\ resp.body.t # "garbage" /\ ~MapToScanAnalysisRaises(resp.body)
                       THEN failed ELSE failed \cup {"service"}
    /\ pc' = "done"
    /\ UNCHANGED <<input, state, escaped, trace, extraction, valVars, gateVars, scanVars>>

\* FacialAnalysisClient.analyze_frames(frames_data)
AnalyzeFrames ==
    /\ pc = "idle"
    /\ input.kind = "service_frames"
    /\ \E resp \in ServiceResponses :
          /\ result' = analyze_frames(resp)
          /\ failed' = IF resp.kind = "body" /\ resp.body.t # "garbage" /\ ~MapToScanAnalysisRaises(resp.body)
                       THEN failed ELSE failed \cup {"service"}
    /\ pc' = "done"
    /\ UNCHANGED <<input, state, escaped, trace, extraction, valVars, gateVars, scanVars>>

(***************************************************************************)
(* One application of val                                                  *)
(***************************************************************************)
MaxRaw == 12

\* what the "score" or the "value" field of an entry can hold
ValFields ==
    {Absent, JNull, JStr(<<"n/a">>), JStr(<<"8.5">>), JNum(Dec(6, 5)), JNum(Dec(125, 0))}
    \cup {JNum(Dec(w, 0)) : w \in (-MaxRaw)..MaxRaw}

ValEntries ==
    {Absent, JNull, JStr(<<"n/a">>), JArr(<<>>), JNum(Dec(-2, 0)), JNum(Dec(7, 5)), JNum(Dec(85, 0))}
    \cup {JObj(Dict(Opt("score", sc) \cup Opt("value", va) \cup {<<"rating", JStr(<<"Ideal">>)>>})) :
            sc \in ValFields, va \in ValFields}

ValDefaults == {JNull, JNum(0), JNum(Dec(5, 0))}

ValInputs ==
    {[view |-> JObj(Dict(Opt("k", e))), key |-> "k", default |-> d] : e \in ValEntries, d \in ValDefaults}
    \cup {[view |-> JNull, key |-> "k", default |-> JNum(Dec(5, 0))]}

ApplyVal ==
    /\ val_out = NoResult
    /\ val_in \in ValInputs
    /\ val_out' = val(val_in.view, val_in.key, val_in.default)
    /\ UNCHANGED <<val_in, pipeVars, gateVars, scanVars>>

(***************************************************************************)
(* Videos for frame extraction                                             *)
(***************************************************************************)
MaxFrames == 16

FpsValues == {0, 1, 2, 30}

\* the positions extract_frames_from_video can seek to in such a video
Probed(fps, total) ==
    {0} \cup {SafeIdx([total_frames |-> total], Indices([fps |-> fps])[i]) : i \in 1..3}

FrameVideos ==
    UNION { { Video(fps, total, readable, open_raises) :
                readable \in SUBSET Probed(fps, total), open_raises \in BOOLEAN } :
            fps \in FpsValues, total \in 0..MaxFrames }

(***************************************************************************)
(* Improvement lists for map_to_courses                                    *)
(***************************************************************************)
MaxImprovements == 2

ImprovementValues ==
    {JNull, JStr(<<"jawline">>), JObj([improvements |-> JArr(<<Entry("SKIN")>>)])}
    \cup UNION { {JArr(items) : items \in [1..n -> ImprovementEntries]} : n \in 0..MaxImprovements }

\* a GraphState as map_to_courses receives it: the three earlier stages have
\* run and the improvements call returned "improvements"
StateBeforeCourses(improvements) ==
    generate_improvements(
        analyze_face_metrics(
            validate_images(InitialState(<<1>>, <<2>>, <<3>>), LLMText(FALSE, JObj(EmptyDict))),
            LLMText(TRUE, MetricsPayload(JNum(Dec(6, 5)), JNum(Dec(6, 0)), JNum(Dec(7, 0)),
                                         [sym |-> JNum(Dec(8, 0)), conf |-> JNum(8), full |-> TRUE]))),
        LLMText(FALSE, improvements))

(***************************************************************************)
(* Stored scans and callers of the read paths                              *)
(***************************************************************************)
MaxScans == 2

Callers == [id : {"u1"}, is_paid : BOOLEAN, is_admin : BOOLEAN, expired : BOOLEAN]

\* analyses as analyze_scan stores them: a fallback analysis, an error
\* analysis of the client, an analysis compiled from an LLM payload
StoredAnalyses ==
    { create_fallback_analysis(<<"ValidationError">>),
      _create_error_analysis(<<"ConnectTimeout">>),
      ConvertToScanAnalysis(compile_analysis(map_to_courses(StateBeforeCourses(JArr(<<Entry("SKIN")>>)),
                                                             <<"skincare-essentials">>))).value,
      ConvertToScanAnalysis(compile_analysis(map_to_courses(
          [StateBeforeCourses(JArr(<<>>)) EXCEPT !.face_metrics = JObj(create_default_metrics_dict)],
          <<>>))).value }

ScanDoc(i, user_id, processing_status, analysis) ==
    [id |-> i, user_id |-> user_id, created_at |-> i, images |-> <<>>,
     processing_status |-> processing_status, analysis |-> analysis]

ScanContents ==
    {<<"pending", NoResult>>, <<"failed", NoResult>>}
    \cup {<<"completed", a>> : a \in StoredAnalyses}

ScanCollections ==
    UNION { { [i \in 1..n |-> ScanDoc(i, owner[i], content[i][1], content[i][2])] :
                owner \in [1..n -> {"u1", "u2"}], content \in [1..n -> ScanContents] } :
            n \in 0..MaxScans }

Limits == {1, 10}

GetLatestScan ==
    /\ response = NoResult
    /\ response' = [request |-> [handler |-> "get_latest_scan", arg |-> 0]]
                   @@ get_latest_scan(caller, scans)
    /\ UNCHANGED <<caller, scans, pipeVars, valVars, scanVars>>

GetScanHistory ==
    /\ response = NoResult
    /\ \E limit \in Limits :
          response' = [request |-> [handler |-> "get_scan_history", arg |-> limit]]
                      @@ get_scan_history(caller, limit, scans)
    /\ UNCHANGED <<caller, scans, pipeVars, valVars, scanVars>>

GetScanById ==
    /\ response = NoResult
    /\ \E scan_id \in 1..(MaxScans + 1) :
          response' = [request |-> [handler |-> "get_scan_by_id", arg |-> scan_id]]
                      @@ get_scan_by_id(caller, scan_id, scans)
    /\ UNCHANGED <<caller, scans, pipeVars, valVars, scanVars>>

(***************************************************************************)
(* analyze_scan (api/scans.py) and get_my_rank (api/leaderboard.py) over   *)
(* the scans and leaderboard collections.  A collection is the sequence of *)
(* its documents in insertion order; the position of a document is its     *)
(* _id.  Every await of a handler is one step of the request, so requests  *)
(* interleave between any two database operations.  Timestamps other than  *)
(* a scan's created_at (its upload order) are left out.                    *)
(***************************************************************************)
MaxRequests == 3

Requests == 1..MaxRequests

Users == {"u1", "u2"}

\* run_face_analysis_pipeline from the metrics and improvements responses,
\* with a validation that passes
RunPipeline(metrics_resp, improvements_resp) ==
    LET s3 == generate_improvements(
                  analyze_face_metrics(
                      validate_images(InitialState(<<1>>, <<2>>, <<3>>), LLMText(FALSE, JObj(EmptyDict))),
                      metrics_resp),
                  improvements_resp)
        s4 == map_to_courses(s3, SetToSeq(IF MapRaises(s3.improvements) THEN {}
                                          ELSE Recommended(s3.improvements)))
    IN  ConvertToScanAnalysis(compile_analysis(s4)).value

\* what face_scan_agent.analyze / analyze_video return to analyze_scan
AnalysisResults ==
    { create_fallback_analysis(<<"Video extraction failed", ": ", "cv2.error">>) }
    \cup { RunPipeline(LLMText(TRUE, MetricsPayload(ov, JNum(Dec(8, 0)), JNum(Dec(4, 0)),
                                   [sym |-> JNum(Dec(8, 0)), conf |-> JNum(8), full |-> TRUE])),
                       LLMText(FALSE, JArr(<<>>))) :
             ov \in {JNum(0), JNum(Dec(6, 5))} }

\* a document of db.scans as upload_scan_video inserts it; NoResult stands
\* for a field the document does not have
NewScan(i, user_id, scan_type) ==
    [id |-> i, user_id |-> user_id, created_at |-> i, scan_type |-> scan_type,
     inputs |-> <<"/uploads/", user_id, i>>,
     processing_status |-> "pending", analysis |-> NoResult, error_message |-> NoResult]

\* analysis.overall_score if hasattr(analysis, 'overall_score')
\* else analysis.metrics.overall_score if hasattr(analysis, 'metrics') else 0
OverallOf(analysis) ==
    IF "overall_score" \in DOMAIN analysis THEN analysis.overall_score
    ELSE IF "metrics" \in DOMAIN analysis THEN analysis.metrics.overall_score
    ELSE 0

\* (float(overall_score) if overall_score else 0) * 10
LeaderboardScore(overall_score) == overall_score * 10

\* find({user_id, processing_status: "completed", analysis: {$exists}}).sort("created_at", -1)
CompletedScansOf(user_id, scan_docs) ==
    SortedByCreatedAt(scan_docs,
        {i \in 1..Len(scan_docs) : /\ scan_docs[i].user_id = user_id
                                   /\ scan_docs[i].processing_status = "completed"
                                   /\ scan_docs[i].analysis # NoResult})

\* the list user_scans: the score of each completed scan, most recent first
UserScans(user_id, scan_docs) ==
    LET found == CompletedScansOf(user_id, scan_docs)
    IN  [i \in 1..Len(found) |-> RedactedOverall(found[i].analysis).v]

\* improvement_percentage, as the exact fraction num / den
ImprovementPercentage(user_scans) ==
    IF Len(user_scans) >= 2 /\ user_scans[Len(user_scans)] > 0
    THEN [num |-> (user_scans[1] - user_scans[Len(user_scans)]) * 100,
          den |-> user_scans[Len(user_scans)]]
    ELSE [num |-> 0, den |-> 1]

\* find_one({"user_id": user_id}) on db.leaderboard: the position, 0 for None
EntryOf(user_id, leaderboard) ==
    IF \E i \in 1..Len(leaderboard) : leaderboard[i].user_id = user_id
    THEN CHOOSE i \in 1..Len(leaderboard) : leaderboard[i].user_id = user_id
    ELSE 0

\* the entries sorted by increasing score
ByScoreAscending(leaderboard) ==
    { order \in Orderings(1..Len(leaderboard)) :
        \A i, j \in 1..Len(leaderboard) :
            i < j => leaderboard[order[i]].score <= leaderboard[order[j]].score }

\* the documents of db.leaderboard.find().sort("score", -1): every order of
\* the entries by decreasing score (the order among equal scores is the
\* database's choice)
ByScore(leaderboard) ==
    { order \in Orderings(1..Len(leaderboard)) :
        \A i, j \in 1..Len(leaderboard) :
            i < j => leaderboard[order[i]].score >= leaderboard[order[j]].score }

\* the entry insert_one adds; it has no rank yet (rank 0)
NewEntry(user_id, overall_score, scans_count) ==
    [user_id |-> user_id, score |-> LeaderboardScore(overall_score), level |-> overall_score,
     streak_days |-> 1, improvement_percentage |-> [num |-> 0, den |-> 1],
     scans_count |-> scans_count, rank |-> 0]

IdleRequest ==
    [handler |-> "none", pc |-> "idle", user |-> "none", scan_id |-> 0, scan |-> NoResult,
     fetched |-> <<>>, analysis |-> NoResult, error |-> NoError, user_scans |-> <<>>,
     existing_entry |-> NoResult, scans_count |-> 0, all_entries |-> <<>>, next |-> 0,
     response |-> NoResult]

\* requests are numbered in the order in which they arrive; the first one
\* has returned when the later ones, which overlap each other, arrive
Arrives(r) ==
    /\ procs[r].pc = "idle"
    /\ \A q \in Requests : q < r => procs[q].pc # "idle"
    /\ r > 1 => procs[1].pc = "done"

\* no two entries whose ranks are in the opposite order of their scores
RanksFollowScores(leaderboard) ==
    \A i, j \in 1..Len(leaderboard) :
        ~(leaderboard[i].score > leaderboard[j].score /\ leaderboard[i].rank > leaderboard[j].rank)

\* by: the request whose rank recomputation (lines 170-172) has run, from
\* its read of all entries on, with no step of another request in between,
\* 0 if there is none; healing: that recomputation began when an interleaved
\* one had left contradicting ranks behind; stale: an interleaved
\* recomputation has ended with ranks that contradict the scores and no
\* uninterleaved one has ended since
NoRanking == [by |-> 0, healing |-> FALSE, stale |-> FALSE]

\* the history of the recomputations after a step of the request r
Track(r) ==
    ranking' =
        IF procs[r].pc = "read_all"
        THEN [by |-> r, stale |-> ranking.stale,
              healing |-> ranking.stale /\ ~RanksFollowScores(db.leaderboard)]
        ELSE IF procs[r].pc = "rank" /\ ranking.by = r
             THEN IF procs'[r].pc = "rank" THEN ranking
                  ELSE [ranking EXCEPT !.stale = FALSE]
             ELSE IF procs[r].pc = "rank" /\ procs'[r].pc # "rank"
                  THEN [by |-> 0, healing |-> FALSE,
                        stale |-> ranking.stale \/ ~RanksFollowScores(db'.leaderboard)]
                  ELSE [by |-> 0, healing |-> FALSE, stale |-> ranking.stale]

\* the request r moves on
Goto(r, label, changes) ==
    /\ procs' = [procs EXCEPT ![r] = changes @@ [pc |-> label] @@ @]
    /\ Track(r)

\* a lookup of the scan by its id alone
FindScanOfAnyone(r) ==
    /\ Arrives(r)
    /\ \E user \in Users, scan_id \in 1..Len(db.scans) :
          Goto(r, "mark", [handler |-> "analyze_scan", user |-> user, scan_id |-> scan_id,
                           scan |-> db.scans[scan_id]])
    /\ UNCHANGED <<db, pipeVars, valVars, gateVars>>

\* lines 58-60: find the caller's scan or answer 404
FindScan(r) ==
    /\ Arrives(r)
    /\ \E user \in Users, scan_id \in 1..Len(db.scans) :
          IF db.scans[scan_id].user_id = user
          THEN Goto(r, "mark", [handler |-> "analyze_scan", user |-> user, scan_id |-> scan_id,
                                scan |-> db.scans[scan_id]])
          ELSE Goto(r, "done", [handler |-> "analyze_scan", user |-> user, scan_id |-> scan_id,
                                response |-> [status |-> 404]])
    /\ UNCHANGED <<db, pipeVars, valVars, gateVars>>

\* line 62
MarkProcessing(r) ==
    /\ procs[r].pc = "mark"
    /\ db' = [db EXCEPT !.scans[procs[r].scan_id].processing_status = "processing"]
    /\ Goto(r, "analyze", <<>>)
    /\ UNCHANGED <<pipeVars, valVars, gateVars>>

\* lines 64-104: fetch the stored inputs of the scan read at line 58 and run
\* the agent; no data, or a failing fetch, raises inside the try
Analyze(r) ==
    /\ procs[r].pc = "analyze"
    /\ \/ \E a \in AnalysisResults :
             Goto(r, "store", [fetched |-> procs[r].scan.inputs, analysis |-> a])
       \/ Goto(r, "fail", [fetched |-> procs[r].scan.inputs,
                           error |-> <<"500: Failed to retrieve ", procs[r].scan.scan_type>>])
    /\ UNCHANGED <<db, pipeVars, valVars, gateVars>>

\* lines 106-109
StoreAnalysis(r) ==
    /\ procs[r].pc = "store"
    /\ db' = [db EXCEPT !.scans[procs[r].scan_id].analysis = procs[r].analysis,
                        !.scans[procs[r].scan_id].processing_status = "completed"]
    /\ Goto(r, "history", <<>>)
    /\ UNCHANGED <<pipeVars, valVars, gateVars>>

\* lines 112-133
ReadHistory(r) ==
    /\ procs[r].pc = "history"
    /\ Goto(r, "find_entry", [user_scans |-> UserScans(procs[r].user, db.scans)])
    /\ UNCHANGED <<db, pipeVars, valVars, gateVars>>

\* line 139
FindEntry(r) ==
    /\ procs[r].pc = "find_entry"
    /\ Goto(r, "write_entry",
            [existing_entry |-> IF EntryOf(procs[r].user, db.leaderboard) = 0 THEN NoResult
                                ELSE db.leaderboard[EntryOf(procs[r].user, db.leaderboard)]])
    /\ UNCHANGED <<db, pipeVars, valVars, gateVars>>

\* update_one({"user_id": user_id}, {$set: ..., $inc: {scans_count: 1}})
UpdateEntry(leaderboard, user_id, new_score, level, improvement_percentage) ==
    IF EntryOf(user_id, leaderboard) = 0 THEN leaderboard
    ELSE [leaderboard EXCEPT ![EntryOf(user_id, leaderboard)] =
             [@ EXCEPT !.score = new_score, !.level = level,
                       !.improvement_percentage = improvement_percentage,
                       !.scans_count = @ + 1]]

\* lines 141-167: update the entry found at line 139 with the higher score,
\* or insert one; the unique index on user_id (db/mongo.py 87) makes the
\* insert raise DuplicateKeyError when an entry has appeared since
WriteEntry(r) ==
    /\ procs[r].pc = "write_entry"
    /\ LET overall_score == OverallOf(procs[r].analysis) IN
       IF procs[r].existing_entry # NoResult
       THEN /\ db' = [db EXCEPT !.leaderboard =
                        UpdateEntry(@, procs[r].user,
                                    Max(procs[r].existing_entry.score, LeaderboardScore(overall_score)),
                                    overall_score, ImprovementPercentage(procs[r].user_scans))]
            /\ Goto(r, "read_all", <<>>)
       ELSE IF EntryOf(procs[r].user, db.leaderboard) # 0
            THEN /\ Goto(r, "fail", [error |-> <<"DuplicateKeyError">>])
                 /\ UNCHANGED db
            ELSE /\ db' = [db EXCEPT !.leaderboard = Append(@, NewEntry(procs[r].user, overall_score, 1))]
                 /\ Goto(r, "read_all", <<>>)
    /\ UNCHANGED <<pipeVars, valVars, gateVars>>

\* scans.py 170, leaderboard.py 88
ReadAllEntries(r) ==
    /\ procs[r].pc = "read_all"
    /\ \E order \in ByScore(db.leaderboard) :
          Goto(r, "rank", [all_entries |-> order, next |-> 1])
    /\ UNCHANGED <<db, pipeVars, valVars, gateVars>>

\* the answer of analyze_scan once its loop is over (line 174); get_my_rank
\* goes on to read its entry again
AfterRanks(r) ==
    IF procs[r].handler = "analyze_scan"
    THEN [pc |-> "done", response |-> [status |-> 200, message |-> "Analysis complete"]]
    ELSE [pc |-> "refetch"]

\* scans.py 171-172, leaderboard.py 89-90: one update of the loop
WriteRank(r) ==
    /\ procs[r].pc = "rank"
    /\ db' = [db EXCEPT !.leaderboard[procs[r].all_entries[procs[r].next]].rank = procs[r].next]
    /\ procs' = [procs EXCEPT ![r] =
                    (IF procs[r].next = Len(procs[r].all_entries) THEN AfterRanks(r) ELSE <<>>)
                    @@ [next |-> procs[r].next + 1] @@ @]
    /\ Track(r)
    /\ UNCHANGED <<pipeVars, valVars, gateVars>>

\* an except clause that only raises the 500
FailUnrecorded(r) ==
    /\ procs[r].pc = "fail"
    /\ Goto(r, "done", [response |-> [status |-> 500, detail |-> <<"Analysis failed: ">> \o procs[r].error]])
    /\ UNCHANGED <<db, pipeVars, valVars, gateVars>>

\* an except clause that records the status without the message
FailSilently(r) ==
    /\ procs[r].pc = "fail"
    /\ db' = [db EXCEPT !.scans[procs[r].scan_id].processing_status = "failed"]
    /\ Goto(r, "done", [response |-> [status |-> 500, detail |-> <<"Analysis failed: ">> \o procs[r].error]])
    /\ UNCHANGED <<pipeVars, valVars, gateVars>>

\* lines 175-177
Fail(r) ==
    /\ procs[r].pc = "fail"
    /\ db' = [db EXCEPT !.scans[procs[r].scan_id].processing_status = "failed",
                        !.scans[procs[r].scan_id].error_message = JStr(procs[r].error)]
    /\ Goto(r, "done", [response |-> [status |-> 500, detail |-> <<"Analysis failed: ">> \o procs[r].error]])
    /\ UNCHANGED <<pipeVars, valVars, gateVars>>

\* the answer of get_my_rank from an entry (leaderboard.py 98-105)
RankResponse(entry) ==
    [status |-> 200, rank |-> entry.rank, score |-> entry.score, level |-> entry.level,
     improvement_percentage |-> entry.improvement_percentage]

\* leaderboard.py 46-52, 98-105: a caller require_paid_user has admitted
MyEntry(r) ==
    /\ Arrives(r)
    /\ \E user \in Users, is_admin \in BOOLEAN :
          IF is_admin
          THEN Goto(r, "done", [handler |-> "get_my_rank", user |-> user,
                                response |-> [status |-> 200, rank |-> 0,
                                              message |-> "Admins are excluded from leaderboard"]])
          ELSE IF EntryOf(user, db.leaderboard) # 0
               THEN Goto(r, "done", [handler |-> "get_my_rank", user |-> user,
                                     response |-> RankResponse(db.leaderboard[EntryOf(user, db.leaderboard)])])
               ELSE Goto(r, "latest", [handler |-> "get_my_rank", user |-> user])
    /\ UNCHANGED <<db, pipeVars, valVars, gateVars>>

\* leaderboard.py 56-66, 95-96
MyLatestScan(r) ==
    /\ procs[r].pc = "latest"
    /\ LET found == CompletedScansOf(procs[r].user, db.scans) IN
       IF found = <<>>
       THEN Goto(r, "done", [response |-> [status |-> 200, rank |-> 0,
                                           message |-> "Complete a scan to join"]])
       ELSE Goto(r, "count", [scan |-> found[1], analysis |-> found[1].analysis])
    /\ UNCHANGED <<db, pipeVars, valVars, gateVars>>

\* leaderboard.py 69-72
MyScansCount(r) ==
    /\ procs[r].pc = "count"
    /\ Goto(r, "insert",
            [scans_count |-> Cardinality({i \in 1..Len(db.scans) :
                                            /\ db.scans[i].user_id = procs[r].user
                                            /\ db.scans[i].processing_status = "completed"})])
    /\ UNCHANGED <<db, pipeVars, valVars, gateVars>>

\* leaderboard.py 75-85; a DuplicateKeyError leaves the handler
MyInsert(r) ==
    /\ procs[r].pc = "insert"
    /\ IF EntryOf(procs[r].user, db.leaderboard) # 0
       THEN /\ Goto(r, "done", [error |-> <<"DuplicateKeyError">>, response |-> [status |-> 500]])
            /\ UNCHANGED db
       ELSE /\ db' = [db EXCEPT !.leaderboard =
                        Append(@, NewEntry(procs[r].user, RedactedOverall(procs[r].analysis).v,
                                           procs[r].scans_count))]
            /\ Goto(r, "read_all", <<>>)
    /\ UNCHANGED <<pipeVars, valVars, gateVars>>

\* leaderboard.py 93-105
MyRefetch(r) ==
    /\ procs[r].pc = "refetch"
    /\ Goto(r, "done", [response |-> RankResponse(db.leaderboard[EntryOf(procs[r].user, db.leaderboard)])])
    /\ UNCHANGED <<db, pipeVars, valVars, gateVars>>

\* scans.py 217-232: get_scan_by_id on the stored scans, for a caller of
\* either payer and admin status; scan.get("images", {}) is empty for the
\* scans upload_scan_video stores
ScanById(r) ==
    /\ Arrives(r)
    /\ \E user \in Users, is_paid \in BOOLEAN, is_admin \in BOOLEAN, scan_id \in 1..Len(db.scans) :
          LET current_user == [id |-> user, is_paid |-> is_paid, is_admin |-> is_admin,
                               expired |-> FALSE]
              stored == [i \in 1..Len(db.scans) |-> db.scans[i] @@ [images |-> <<>>]]
          IN  Goto(r, "done", [handler |-> "get_scan_by_id", user |-> user, scan_id |-> scan_id,
                               current_user |-> current_user,
                               response |-> get_scan_by_id(current_user, scan_id, stored)])
    /\ UNCHANGED <<db, pipeVars, valVars, gateVars>>

\* one step of an analyze_scan request, or of the rank recomputation both
\* handlers share
AnalyzeScanStep(r) ==
    \/ FindScan(r)
    \/ MarkProcessing(r)
    \/ Analyze(r)
    \/ StoreAnalysis(r)
    \/ ReadHistory(r)
    \/ FindEntry(r)
    \/ WriteEntry(r)
    \/ ReadAllEntries(r)
    \/ WriteRank(r)
    \/ Fail(r)

\* the steps of get_my_rank that lead to its answer without a new entry
MyRankStep(r) ==
    \/ MyEntry(r)
    \/ MyLatestScan(r)

\* the entry-creating steps of get_my_rank
MyNewEntryStep(r) ==
    \/ MyScansCount(r)
    \/ MyInsert(r)
    \/ MyRefetch(r)

\* one step of the request r
Step(r) == AnalyzeScanStep(r) \/ MyRankStep(r) \/ MyNewEntryStep(r)

\* no other request is between two of its steps
Alone(r) == \A q \in Requests \ {r} : procs[q].pc \in {"idle", "done"}

(***************************************************************************)
(* upload_scan_video (api/scans.py) and the subscription activations       *)
(* (api/payments.py) over the users and scans collections.  The user       *)
(* record a handler works with is the one get_current_user read when the   *)
(* request arrived.                                                        *)
(***************************************************************************)
\* a user document as far as these handlers read or write it
NewUser == [is_paid |-> FALSE, first_scan_completed |-> FALSE]

\* get_current_user (auth_middleware.py 45-57), then lines 26-30: the video
\* is read and stored, or storing fails and the request ends with 500
UploadStart(r) ==
    /\ Arrives(r)
    /\ \E user \in Users, stored \in BOOLEAN :
          IF stored
          THEN Goto(r, "insert_scan", [handler |-> "upload_scan_video", user |-> user,
                                       current_user |-> db.users[user]])
          ELSE Goto(r, "done", [handler |-> "upload_scan_video", user |-> user,
                                current_user |-> db.users[user],
                                response |-> [status |-> 500, detail |-> <<"Failed to upload video">>]])
    /\ UNCHANGED <<db, pipeVars, valVars, gateVars>>

\* lines 32-42: the scan document, unlocked if the user record read at the
\* start says the user pays
UploadInsert(r) ==
    /\ procs[r].pc = "insert_scan"
    /\ db' = [db EXCEPT !.scans =
                 Append(@, NewScan(Len(@) + 1, procs[r].user, "video")
                           @@ [is_unlocked |-> procs[r].current_user.is_paid])]
    /\ Goto(r, "first_scan", [scan_id |-> Len(db.scans) + 1])
    /\ UNCHANGED <<pipeVars, valVars, gateVars>>

\* lines 44-50
UploadFirstScan(r) ==
    /\ procs[r].pc = "first_scan"
    /\ db' = IF procs[r].current_user.first_scan_completed THEN db
             ELSE [db EXCEPT !.users[procs[r].user].first_scan_completed = TRUE]
    /\ Goto(r, "done", [response |-> [status |-> 200, scan_id |-> procs[r].scan_id]])
    /\ UNCHANGED <<pipeVars, valVars, gateVars>>

\* payments.py 46-55 (stripe_webhook, for an event that activates or one
\* that does not) and 75-87 (test_activate_subscription, refused with 403
\* outside development): the user pays
ActivateUser(r) ==
    /\ Arrives(r)
    /\ \E user \in Users, handler \in {"stripe_webhook", "test_activate_subscription"},
          action \in {"activate", "none"} :
          IF action # "activate"
          THEN /\ Goto(r, "done", [handler |-> handler, user |-> user, action |-> action,
                                    response |-> [status |-> IF handler = "stripe_webhook"
                                                             THEN 200 ELSE 403]])
               /\ UNCHANGED db
          ELSE /\ db' = [db EXCEPT !.users[user].is_paid = TRUE]
               /\ Goto(r, "unlock", [handler |-> handler, user |-> user, action |-> "activate"])
    /\ UNCHANGED <<pipeVars, valVars, gateVars>>

\* payments.py 56 and 90: update_many sets is_unlocked on the user's scans
UnlockScans(r) ==
    /\ procs[r].pc = "unlock"
    /\ db' = [db EXCEPT !.scans =
                 [i \in 1..Len(@) |->
                     IF @[i].user_id = procs[r].user THEN [@[i] EXCEPT !.is_unlocked = TRUE]
                     ELSE @[i]]]
    /\ Goto(r, "done", [response |-> [status |-> 200]])
    /\ UNCHANGED <<pipeVars, valVars, gateVars>>

\* the scans collections the requests start from: uploaded by
\* upload_scan_video (scan_type "video"), not yet analysed
UploadedScans ==
    UNION { { [i \in 1..n |-> NewScan(i, owner[i], "video")] : owner \in [1..n -> Users] } :
            n \in 1..MaxScans }

(***************************************************************************)
(* Specifications                                                          *)
(***************************************************************************)
PipeIdle ==
    /\ pc = "idle"
    /\ state = NoState
    /\ result = NoResult
    /\ escaped = FALSE
    /\ trace = <<>>
    /\ failed = {}
    /\ extraction = NoResult

ValIdle ==
    /\ val_in = [view |-> JNull, key |-> "k", default |-> JNum(Dec(5, 0))]
    /\ val_out = NoResult

GateIdle ==
    /\ caller = [id |-> "u1", is_paid |-> FALSE, is_admin |-> FALSE, expired |-> FALSE]
    /\ scans = <<>>
    /\ response = NoResult

ScanIdle ==
    /\ db = [scans |-> <<>>, leaderboard |-> <<>>]
    /\ procs = <<>>
    /\ ranking = NoRanking

\* one analysis request, to the LLM pipeline or to the measurement service
Init ==
    /\ PipeIdle
    /\ input \in PipelineInputs \cup ServiceInputs
    /\ ValIdle
    /\ GateIdle
    /\ ScanIdle

Next ==
    \/ RunFaceAnalysisPipeline
    \/ RunVideoAnalysisPipeline
    \/ ValidateImages
    \/ AnalyzeFaceMetrics
    \/ GenerateImprovements
    \/ MapToCourses
    \/ CompileAnalysis
    \/ Convert
    \/ UploadVideo
    \/ AnalyzeFrames

Spec == Init /\ [][Next]_vars

\* frame extraction over every bounded video
FramesInit ==
    /\ PipeIdle
    /\ input \in FrameVideos
    /\ ValIdle
    /\ GateIdle
    /\ ScanIdle

FramesNext == RunVideoAnalysisPipeline

SpecFrames == FramesInit /\ [][FramesNext]_vars

\* map_to_courses over every bounded improvement list
CoursesInit ==
    /\ pc = "courses"
    /\ input = Images
    /\ state \in {StateBeforeCourses(v) : v \in ImprovementValues}
    /\ result = NoResult
    /\ escaped = FALSE
    /\ trace = <<"validate", "metrics", "improvements">>
    /\ failed = {}
    /\ extraction = NoResult
    /\ ValIdle
    /\ GateIdle
    /\ ScanIdle

CoursesNext == MapToCourses

SpecCourses == CoursesInit /\ [][CoursesNext]_vars

\* val over every bounded measurement entry
ValInit ==
    /\ PipeIdle
    /\ input = Request("service_video")
    /\ val_in \in ValInputs
    /\ val_out = NoResult
    /\ GateIdle
    /\ ScanIdle

ValNext == ApplyVal

SpecVal == ValInit /\ [][ValNext]_vars

\* the read paths over every bounded scan collection and caller
GateInit ==
    /\ PipeIdle
    /\ input = Images
    /\ ValIdle
    /\ caller \in Callers
    /\ scans \in ScanCollections
    /\ response = NoResult
    /\ ScanIdle

GateNext ==
    \/ GetLatestScan
    \/ GetScanHistory
    \/ GetScanById

SpecGate == GateInit /\ [][GateNext]_vars

\* requests on the scans of two users, interleaved at every await
ScansInit ==
    /\ PipeIdle
    /\ input = Images
    /\ ValIdle
    /\ GateIdle
    /\ db \in {[scans |-> sc, leaderboard |-> <<>>] : sc \in UploadedScans}
    /\ procs = [r \in Requests |-> IdleRequest]
    /\ ranking = NoRanking

ScansNext == \E r \in Requests : Step(r)

SpecScans == ScansInit /\ [][ScansNext]_vars

\* the same requests, each running from its first step to its answer with no
\* other request in between.  The entry-creating steps of get_my_rank need a
\* completed scan of a user without a leaderboard entry, which requests
\* that run one after the other never leave behind.
SerialNext ==
    \E r \in Requests : Alone(r) /\ (AnalyzeScanStep(r) \/ MyRankStep(r) \/ ScanById(r))

SpecSerial == ScansInit /\ [][SerialNext]_vars

\* uploads and subscription activations of two users who start without a
\* subscription and without scans, interleaved at every await
UnlockInit ==
    /\ PipeIdle
    /\ input = Images
    /\ ValIdle
    /\ GateIdle
    /\ db = [users |-> [u \in Users |-> NewUser], scans |-> <<>>, leaderboard |-> <<>>]
    /\ procs = [r \in Requests |-> IdleRequest]
    /\ ranking = NoRanking

UnlockNext ==
    \E r \in Requests :
        \/ UploadStart(r)
        \/ UploadInsert(r)
        \/ UploadFirstScan(r)
        \/ ActivateUser(r)
        \/ UnlockScans(r)

SpecUnlock == UnlockInit /\ [][UnlockNext]_vars

(***************************************************************************)
(* Properties                                                              *)
(***************************************************************************)
ScanAnalysisFields ==
    {"metrics", "improvements", "top_strengths", "focus_areas", "recommended_courses",
     "personalized_summary", "estimated_potential"}

\* r has the fields of a ScanAnalysis and every sub-score of a FaceMetrics
IsScanAnalysis(r) ==
    /\ DOMAIN r = ScanAnalysisFields
    /\ DOMAIN r.metrics = Groups \cup ScalarKeys
    /\ \A g \in Groups : DOMAIN r.metrics[g] = GroupKeys[g]

\* m is what create_default_metrics_dict describes: every sub-score 5,
\* confidence_score 0.5
AllDefault(m) ==
    /\ \A g \in Groups : \A k \in GroupKeys[g] : m[g][k] = Dec(5, 0)
    /\ \A k \in ScalarKeys \ {"confidence_score"} : m[k] = Dec(5, 0)
    /\ m.confidence_score = Dec(0, 5)

LLMRequest == input.kind \in {"images", "video"}

\* C1: every invocation of run_face_analysis_pipeline and of
\* run_video_analysis_pipeline ends with a ScanAnalysis and lets no exception
\* escape, whichever stages fail.
C1_NoExceptionEscapes ==
    LLMRequest => /\ ~escaped
                  /\ (pc = "done" => IsScanAnalysis(result))

\* an image request in which validation, course mapping and the final model
\* construction all failed, and which returned
C1_Witness ==
    /\ pc = "done"
    /\ input.kind = "images"
    /\ {"validate", "courses", "convert"} \subseteq failed

\* C3 (as stated): when the metrics call fails, at most 2 attempts are made,
\* face_metrics becomes the default-metrics object, and the returned analysis
\* carries what compile_analysis computes from those defaults.
C3_DefaultsAfterFailedMetrics ==
    (pc = "done" /\ "metrics" \in failed) =>
        LET onDefaults ==
                compile_analysis([state EXCEPT !.face_metrics = JObj(create_default_metrics_dict)]).analysis.f
        IN  /\ Cardinality({i \in DOMAIN trace : trace[i] = "metrics"}) <= 2
            /\ state.face_metrics = JObj(create_default_metrics_dict)
            /\ {"improvements", "courses", "compile"} \subseteq {trace[i] : i \in DOMAIN trace}
            /\ result.top_strengths = onDefaults.top_strengths.s
            /\ result.focus_areas = onDefaults.focus_areas.s
            /\ result.personalized_summary = onDefaults.personalized_summary.s
            /\ result.estimated_potential = onDefaults.estimated_potential.v

\* C4: when frame extraction raises, the returned analysis has a summary that
\* contains "Video extraction failed", focus_areas ["Retry analysis"], no
\* improvements and default metrics, and no stage has run.
C4_ExtractionFailure ==
    (pc = "done" /\ input.kind = "video" /\ "extract" \in failed) =>
        /\ \E i \in DOMAIN result.personalized_summary :
              result.personalized_summary[i] = "Video extraction failed"
        /\ result.focus_areas = <<"Retry analysis">>
        /\ result.improvements = <<>>
        /\ AllDefault(result.metrics)
        /\ trace = <<>>

C4_Witness ==
    /\ pc = "done"
    /\ input.kind = "video"
    /\ "extract" \in failed
    /\ result # NoResult

\* the sub-scores the metrics stage produced are those of the returned metrics
MetricsFromStage(m, fm) ==
    /\ IsObj(fm)
    /\ \A k \in DOMAIN fm.f :
          /\ (k \in ScalarKeys => IsNum(fm.f[k]) /\ m[k] = fm.f[k].v)
          /\ (k \in Groups =>
                /\ IsObj(fm.f[k])
                /\ \A sk \in DOMAIN fm.f[k].f \cap GroupKeys[k] :
                      IsNum(fm.f[k].f[sk]) /\ m[k][sk] = fm.f[k].f[sk].v)

\* every value the metrics stage produced is a number of its range, every
\* region group an object
WellFormedMetrics(fm) ==
    /\ IsObj(fm)
    /\ \A k \in DOMAIN fm.f :
          /\ (k = "confidence_score" => InRange(fm.f[k], 0, Dec(1, 0)))
          /\ (k \in ScalarKeys \ {"confidence_score"} => InRange(fm.f[k], 0, Dec(10, 0)))
          /\ (k \in Groups =>
                /\ IsObj(fm.f[k])
                /\ \A sk \in DOMAIN fm.f[k].f \cap GroupKeys[k] : InRange(fm.f[k].f[sk], 0, Dec(10, 0)))

ImprovementsFailedAfterMetrics ==
    /\ pc = "done"
    /\ "metrics" \notin failed
    /\ "improvements" \in failed

\* C5 (as stated): when the metrics stage succeeded and the improvements call
\* fails, the returned analysis has no improvements and exactly the metrics
\* of the metrics stage, the later stages having run.
C5_MetricsKept ==
    ImprovementsFailedAfterMetrics =>
        /\ result.improvements = <<>>
        /\ MetricsFromStage(result.metrics, state.face_metrics)
        /\ trace = <<"validate", "metrics", "improvements", "courses", "compile">>

\* C5 (amended): the same, for a metrics stage whose output is well formed.
C5_MetricsKeptWhenWellFormed ==
    (ImprovementsFailedAfterMetrics /\ WellFormedMetrics(state.face_metrics)) =>
        /\ result.improvements = <<>>
        /\ MetricsFromStage(result.metrics, state.face_metrics)
        /\ trace = <<"validate", "metrics", "improvements", "courses", "compile">>

C5_Witness ==
    /\ ImprovementsFailedAfterMetrics
    /\ WellFormedMetrics(state.face_metrics)
    /\ result.metrics.overall_score = Dec(6, 5)
    /\ result.metrics.jawline.definition_score = Dec(8, 0)

\* C6: every returned ScanAnalysis, of the LLM pipeline or of the
\* measurement-service client, fallback and error analyses included, has
\* overall_score <= estimated_potential <= 10.
C6_PotentialBounds ==
    (pc = "done" /\ ~escaped) =>
        /\ result.metrics.overall_score <= result.estimated_potential
        /\ result.estimated_potential <= Dec(10, 0)

\* a compiled analysis whose potential the cap at 10 decides
C6_Witness ==
    /\ pc = "done"
    /\ LLMRequest
    /\ "convert" \notin failed
    /\ result.metrics.overall_score = Dec(10, 0)
    /\ Len(result.focus_areas) = 2
    /\ result.estimated_potential = Dec(10, 0)

\* C8: whatever the metrics payload of the LLM path, the returned analysis
\* has every sub-score defined and within [0,10], confidence_score within
\* [0,1], and 5 for every sub-score key the payload lacks.
C8_SubScoresDefined ==
    (pc = "done" /\ LLMRequest /\ ~escaped) =>
        /\ IsScanAnalysis(result)
        /\ \A g \in Groups : \A k \in GroupKeys[g] :
              /\ result.metrics[g][k] \in 0..Dec(10, 0)
              /\ (\/ ~IsObj(state.face_metrics)
                  \/ g \notin DOMAIN state.face_metrics.f
                  \/ (IsObj(state.face_metrics.f[g]) /\ k \notin DOMAIN state.face_metrics.f[g].f))
                 => result.metrics[g][k] = Dec(5, 0)
        /\ \A k \in ScalarKeys \ {"confidence_score"} : result.metrics[k] \in 0..Dec(10, 0)
        /\ result.metrics.confidence_score \in 0..Dec(1, 0)

\* a payload without the jawline group whose other values are kept
C8_Witness ==
    /\ pc = "done"
    /\ LLMRequest
    /\ IsObj(state.face_metrics)
    /\ "jawline" \notin DOMAIN state.face_metrics.f
    /\ "convert" \notin failed
    /\ result.metrics.overall_score = Dec(6, 5)
    /\ result.metrics.skin.overall_quality = Dec(4, 0)
    /\ result.metrics.jawline.definition_score = Dec(5, 0)

(***************************************************************************)
(* map_to_courses (SpecCourses)                                            *)
(***************************************************************************)
CourseIds ==
    {"jawline-mastery", "skincare-essentials", "fat-loss-for-face", "hair-optimization",
     "posture-correction"}

\* the courses whose keywords an area label contains, ignoring case
CoursesFor(label) ==
    CASE label = "Jawline" -> {"jawline-mastery"}
      [] label = "SKIN" -> {"skincare-essentials"}
      [] label = "skin texture" -> {"skincare-essentials"}
      [] label = "Body Fat" -> {"fat-loss-for-face"}
      [] label = "Hairline" -> {"hair-optimization"}
      [] label = "Posture" -> {"posture-correction"}
      [] OTHER -> {}

\* the area labels of the entries of a list that carry one
LabelsIn(improvements) ==
    { l \in AreaLabels :
        \E i \in 1..Len(improvements.s) :
            /\ IsObj(improvements.s[i])
            /\ "area" \in DOMAIN improvements.s[i].f
            /\ improvements.s[i].f.area = JStr(Chars(l)) }

Mapped == {state.course_mappings.s[i] : i \in 1..Len(state.course_mappings.s)}

\* a list whose entries are all objects with a string (or no) area label
WellFormedImprovements(improvements) ==
    /\ improvements.t = "arr"
    /\ \A i \in 1..Len(improvements.s) :
          /\ IsObj(improvements.s[i])
          /\ ("area" \in DOMAIN improvements.s[i].f => improvements.s[i].f.area.t = "str")

\* C7 (as stated): for every list of improvements the mapped courses hold no
\* duplicate, only ids of the table, and a course exactly when some area
\* label contains one of its keywords, ignoring case.
C7_CoursesExactlyMatched ==
    (pc = "compile" /\ state.improvements.t = "arr") =>
        /\ Cardinality(Mapped) = Len(state.course_mappings.s)
        /\ Mapped \subseteq CourseIds
        /\ Mapped = UNION {CoursesFor(l) : l \in LabelsIn(state.improvements)}

\* C7 (amended): no duplicate and only ids of the table, always; the exact
\* match for a list of well-formed entries; no course at all otherwise.
C7_CoursesMatchedWhenWellFormed ==
    (pc = "compile") =>
        /\ Cardinality(Mapped) = Len(state.course_mappings.s)
        /\ Mapped \subseteq CourseIds
        /\ IF WellFormedImprovements(state.improvements)
           THEN Mapped = UNION {CoursesFor(l) : l \in LabelsIn(state.improvements)}
           ELSE Mapped = {}

C7_Witness ==
    /\ pc = "compile"
    /\ WellFormedImprovements(state.improvements)
    /\ LabelsIn(state.improvements) = {"SKIN", "Body Fat"}
    /\ Mapped = {"skincare-essentials", "fat-loss-for-face"}

(***************************************************************************)
(* val (SpecVal)                                                           *)
(***************************************************************************)
Clamped(x) == IF x < 0 THEN 0 ELSE IF x > Dec(10, 0) THEN Dec(10, 0) ELSE x

\* the entry val was applied to is a dict whose score and value are numbers,
\* null or absent
NumericEntry ==
    /\ IsObj(val_in.view)
    /\ val_in.key \in DOMAIN val_in.view.f
    /\ IsObj(val_in.view.f[val_in.key])
    /\ \A f \in {"score", "value"} :
          f \in DOMAIN val_in.view.f[val_in.key].f =>
              val_in.view.f[val_in.key].f[f].t \in {"num", "null"}

Field(f) ==
    IF f \in DOMAIN val_in.view.f[val_in.key].f THEN val_in.view.f[val_in.key].f[f] ELSE JNull

Decodable(video) ==
    /\ ~video.open_raises
    /\ video.total_frames > 0
    /\ 0 \in video.readable

Buffers == <<state.front_image, state.left_image, state.right_image>>

\* C10: for a non-empty decodable video the extraction returns three
\* non-empty buffers, and the buffer of a position whose seek-and-read failed
\* is the encoding of frame 0.
C10_ThreeFrames ==
    (pc # "idle" /\ Decodable(input)) =>
        /\ pc = "validate"
        /\ \A i \in 1..3 :
              /\ Buffers[i] # <<>>
              /\ (SafeIdx(input, Indices(input)[i]) \notin input.readable) => Buffers[i] = <<0>>

\* the left offset cannot be read, the front one can
C10_Witness ==
    /\ pc = "validate"
    /\ Decodable(input)
    /\ SafeIdx(input, Indices(input)[2]) \notin input.readable
    /\ Buffers[1] = <<1>>
    /\ Buffers[2] = <<0>>

(***************************************************************************)
(* The read paths (SpecGate)                                               *)
(***************************************************************************)
\* the analysis part of the response, if any, is {overall_score, locked: true}
RedactedShape ==
    (response.status = 200 /\ "analysis" \in DOMAIN response.body /\ response.body.analysis # NoResult) =>
        /\ DOMAIN response.body.analysis = {"overall_score", "locked"}
        /\ response.body.analysis.locked

\* the response is the same whichever stored analysis of the same
\* overall_score a scan holds
Indistinguishable ==
    \A i \in 1..Len(scans) : \A a \in StoredAnalyses :
        (scans[i].analysis # NoResult
           /\ a.metrics.overall_score = scans[i].analysis.metrics.overall_score) =>
            Serve(response.request, caller, [scans EXCEPT ![i].analysis = a])
                = [status |-> response.status, body |-> response.body]

\* C2 (as stated): to a caller who is not a payer no read path shows a field
\* of a stored analysis other than overall_score.
C2_NonPayerSeesOnlyOverall ==
    (response # NoResult /\ ~caller.is_paid) => (RedactedShape /\ Indistinguishable)

\* C2 (amended): the same for a caller who is neither a payer nor an admin,
\* whom get_scan_by_id and get_scan_history refuse with 402.
C2_NonPayerNonAdminSeesOnlyOverall ==
    (response # NoResult /\ ~caller.is_paid /\ ~caller.is_admin) =>
        /\ RedactedShape
        /\ Indistinguishable
        /\ (response.request.handler \in {"get_scan_by_id", "get_scan_history"} => response.status = 402)

\* a redacted latest scan whose analysis has a same-score twin
C2_Witness ==
    /\ response # NoResult
    /\ ~caller.is_paid
    /\ ~caller.is_admin
    /\ response.request.handler = "get_latest_scan"
    /\ response.status = 200
    /\ "analysis" \in DOMAIN response.body
    /\ response.body.analysis = [overall_score |-> JNum(Dec(5, 0)), locked |-> TRUE]
    /\ \E a, b \in StoredAnalyses : a # b /\ a.metrics.overall_score = Dec(5, 0)
                                    /\ b.metrics.overall_score = Dec(5, 0)

(***************************************************************************)
(* The compiled analysis (Spec)                                            *)
(***************************************************************************)
Elems(seq) == {seq[i] : i \in DOMAIN seq}

\* the metrics stage reported a jawline definition of at least 7 and a skin
\* quality below 7, in a payload that compiles
JawStrongSkinWeak ==
    /\ WellFormedMetrics(state.face_metrics)
    /\ ~CompileRaises(state)
    /\ "jawline" \in DOMAIN state.face_metrics.f
    /\ "definition_score" \in DOMAIN state.face_metrics.f.jawline.f
    /\ state.face_metrics.f.jawline.f.definition_score.v >= Dec(7, 0)
    /\ "skin" \in DOMAIN state.face_metrics.f
    /\ "overall_quality" \in DOMAIN state.face_metrics.f.skin.f
    /\ state.face_metrics.f.skin.f.overall_quality.v < Dec(7, 0)

\* C11 (as stated): when the metrics give jawline.definition_score >= 7 and
\* skin.overall_quality < 7, the compiled analysis has a jawline label among
\* its top_strengths, a skin label among its focus_areas and the course
\* skincare-essentials among its recommended_courses, whatever the
\* improvements stage returned.
C11_StrengthFocusCourse ==
    (pc = "done" /\ LLMRequest /\ JawStrongSkinWeak /\ "convert" \notin failed) =>
        /\ "Well-defined jawline" \in Elems(result.top_strengths)
        /\ "Skin improvement" \in Elems(result.focus_areas)
        /\ "skincare-essentials" \in Elems(result.recommended_courses)

\* every sub-score and every scalar of the metrics is 0
AllZero(m) ==
    /\ \A g \in Groups : \A k \in GroupKeys[g] : m[g][k] = 0
    /\ \A k \in ScalarKeys : m[k] = 0

\* C14 (as stated): when the compile stage fails, the returned analysis is
\* zero-valued and its personalized_summary carries the error text.
C14_ZeroValuedOnCompileFailure ==
    (pc = "done" /\ LLMRequest /\ "compile" \in failed) =>
        /\ AllZero(result.metrics)
        /\ result.estimated_potential = 0
        /\ result.personalized_summary # <<>>
        /\ Elems(state.error) \subseteq Elems(result.personalized_summary)

\* C16 (as stated): a metrics stage that failed with retry budget left has
\* been invoked again before the improvements stage is entered, and the
\* improvements stage is never entered with face_metrics unset.
C16_RetryBeforeImprovements ==
    (pc = "improvements") =>
        /\ state.face_metrics # JNull
        /\ ("metrics" \in failed =>
               Cardinality({i \in DOMAIN trace : trace[i] = "metrics"}) >= 2)

\* the request ended with a fallback analysis of the LLM pipeline
FellBack == "convert" \in failed \/ "extract" \in failed

C15_TempFileRemoved ==
    (extraction # NoResult) => ~extraction.temp_exists

\* C18 (as stated): every index the extraction seeks to lies in
\* [0, total_frames - 1], for every frame rate and frame count, 0 included.
C18_SeeksWithinReportedFrames ==
    (extraction # NoResult) =>
        \A i \in DOMAIN extraction.seeks :
            extraction.seeks[i] \in 0..(input.total_frames - 1)

\* C18 (amended): for a frame count of at least 1 every sought index lies in
\* [0, total_frames - 1]; for a frame count of 0 the extraction seeks to -1.
C18_SeeksWithinVideo ==
    (extraction # NoResult) =>
        \A i \in DOMAIN extraction.seeks :
            IF input.total_frames >= 1
            THEN extraction.seeks[i] \in 0..(input.total_frames - 1)
            ELSE extraction.seeks[i] = -1

\* a 10-frame video at 1 frame per second: the 14 s offset is clamped to 9
C18_Witness ==
    /\ extraction # NoResult
    /\ input.fps = 1
    /\ input.total_frames = 10
    /\ extraction.seeks = <<0, 5, 9>>

(***************************************************************************)
(* analyze_scan and the leaderboard (SpecScans, SpecSerial)                *)
(***************************************************************************)
ScoreOfUser(leaderboard, u) == leaderboard[EntryOf(u, leaderboard)].score

\* the analyses that requests of the user u have stored in, or read from, a
\* completed scan
CompletedFor(u) ==
    { procs[r].analysis :
        r \in { q \in Requests : /\ procs[q].user = u
                                 /\ procs[q].analysis # NoResult
                                 /\ procs[q].pc # "store" } }

ScoreFromCompletedAnalysis ==
    \A i \in 1..Len(db.leaderboard) :
        \E a \in CompletedFor(db.leaderboard[i].user_id) :
            db.leaderboard[i].score = 10 * a.metrics.overall_score

ScoreKept ==
    \A u \in Users :
        EntryOf(u, db.leaderboard) # 0 =>
            /\ EntryOf(u, db'.leaderboard) # 0
            /\ ScoreOfUser(db'.leaderboard, u) >= ScoreOfUser(db.leaderboard, u)

\* C12 (as stated): under any interleaving of analyze_scan requests the score
\* of a user's leaderboard entry never decreases from one state to the next,
\* and it is always 10 times the overall_score of an analysis completed for
\* that user.
C12_ScoreNeverDecreases == []ScoreFromCompletedAnalysis /\ [][ScoreKept]_vars

\* the moves of processing_status the lifecycle allows, the retry of a failed
\* scan included
StatusMoves ==
    {<<"pending", "processing">>, <<"processing", "completed">>, <<"processing", "failed">>,
     <<"failed", "processing">>}

LifecycleKept ==
    \A i \in 1..Len(db.scans) :
        /\ db'.scans[i].processing_status # db.scans[i].processing_status =>
              <<db.scans[i].processing_status, db'.scans[i].processing_status>> \in StatusMoves
        /\ db.scans[i].processing_status = "completed" =>
              /\ db'.scans[i].processing_status = "completed"
              /\ db'.scans[i].analysis = db.scans[i].analysis

\* C13 (as stated): processing_status only moves along
\* pending -> processing -> {completed, failed}, and a completed scan never
\* changes its status or its analysis again, whatever requests follow.
C13_CompletedIsTerminal == [][LifecycleKept]_vars

FailedHasMessage ==
    \A i \in 1..Len(db.scans) :
        db.scans[i].processing_status = "failed" => db.scans[i].error_message # NoResult

\* the steps of an attempt: a request on the caller's own scan is taken up
\* whatever the scan's status, sets it to processing, fetches the inputs the
\* scan document holds, and its analysis replaces the scan's analysis field;
\* no step changes the stored inputs
AttemptKept ==
    /\ \A i \in 1..Len(db.scans) : db'.scans[i].inputs = db.scans[i].inputs
    /\ \A r \in Requests :
          /\ (procs[r].pc = "idle" /\ procs'[r].handler = "analyze_scan"
                /\ db.scans[procs'[r].scan_id].user_id = procs'[r].user) =>
                 procs'[r].pc = "mark"
          /\ (procs[r].pc = "mark" /\ procs'[r].pc # "mark") =>
                 /\ procs'[r].pc = "analyze"
                 /\ db'.scans[procs[r].scan_id].processing_status = "processing"
          /\ (procs[r].pc = "analyze" /\ procs'[r].pc # "analyze") =>
                 procs'[r].fetched = db.scans[procs[r].scan_id].inputs
          /\ (procs[r].pc = "store" /\ procs'[r].pc # "store") =>
                 /\ db'.scans[procs[r].scan_id].analysis = procs[r].analysis
                 /\ db'.scans[procs[r].scan_id].processing_status = "completed"

\* C19: a failed scan carries an error_message, and a later analyze_scan
\* request on it starts a fresh attempt (status back to processing) from the
\* same stored inputs, whose analysis overwrites the scan's analysis field.
C19_FailedScanRetried == []FailedHasMessage /\ [][AttemptKept]_vars

\* a request that found its scan failed, with its message, and completed it
C19_Witness ==
    \E r \in Requests :
        /\ procs[r].handler = "analyze_scan"
        /\ procs[r].pc = "done"
        /\ procs[r].response.status = 200
        /\ procs[r].scan.processing_status = "failed"
        /\ procs[r].scan.error_message # NoResult
        /\ procs[r].fetched = db.scans[procs[r].scan_id].inputs
        /\ db.scans[procs[r].scan_id].processing_status = "completed"
        /\ db.scans[procs[r].scan_id].analysis = procs[r].analysis

\* the ranks are a dense ranking by decreasing score
DenseRanks(leaderboard) ==
    LET n == Len(leaderboard) IN
    /\ \A i, j \in 1..n :
          /\ leaderboard[i].score > leaderboard[j].score => leaderboard[i].rank < leaderboard[j].rank
          /\ leaderboard[i].score = leaderboard[j].score => leaderboard[i].rank = leaderboard[j].rank
    /\ {leaderboard[i].rank : i \in 1..n} = 1..Cardinality({leaderboard[i].score : i \in 1..n})

\* C20 (as stated): once a request that ran with no other request interleaved
\* has completed, the ranks of all entries form a dense ranking by score.
C20_DenseRanksAfterCompletion ==
    (\A r \in Requests : procs[r].pc \in {"idle", "done"}) => DenseRanks(db.leaderboard)

StageOrder == <<"validate", "metrics", "improvements", "courses", "compile">>

\* the stages run so far are an initial part of the fixed order, the stage
\* about to run is the next one, and all five have run once the conversion
\* is reached
StagesInOrder ==
    LLMRequest =>
        /\ trace = SubSeq(StageOrder, 1, Len(trace))
        /\ (\E k \in 1..5 : pc = StageOrder[k]) => pc = StageOrder[Len(trace) + 1]
        /\ (pc = "convert" \/ (pc = "done" /\ "extract" \notin failed)) => trace = StageOrder

\* a step of a stage leaves what the earlier stages wrote as it was
PriorOutputsKept ==
    /\ pc \in {"validate", "metrics", "improvements", "courses", "compile", "convert"} =>
          /\ state'.front_image = state.front_image
          /\ state'.left_image = state.left_image
          /\ state'.right_image = state.right_image
    /\ pc \in {"metrics", "improvements", "courses", "compile", "convert"} =>
          state'.validation_result = state.validation_result
    /\ pc \in {"improvements", "courses", "compile", "convert"} =>
          state'.face_metrics = state.face_metrics
    /\ pc \in {"courses", "compile", "convert"} =>
          state'.improvements = state.improvements

\* C23: the stages run in the order validate, metrics, improvements,
\* course-mapping, compile, each exactly once, and no stage, failing or not,
\* changes the images or a field an earlier stage wrote.
C23_StagesInOrderKeepPriorOutputs == []StagesInOrder /\ [][PriorOutputsKept]_vars

\* a finished run whose course-mapping and compile stages failed after the
\* metrics and improvements stages had written their fields
C23_Witness ==
    /\ pc = "done"
    /\ LLMRequest
    /\ trace = StageOrder
    /\ {"courses", "compile"} \subseteq failed
    /\ "metrics" \notin failed
    /\ state.validation_result # JNull
    /\ state.face_metrics.t = "obj"
    /\ state.improvements.t = "arr"
    /\ state.improvements.s # <<>>

\* C24 (as stated): every returned ScanAnalysis, of either implementation, has
\* at most 5 top_strengths and at most 5 focus_areas.
C24_AtMostFiveLabels ==
    (pc = "done" /\ ~escaped) =>
        /\ Len(result.top_strengths) <= 5
        /\ Len(result.focus_areas) <= 5

\* the callers the claim lets through: admins, and payers whose subscription
\* has no end date in the past
Admitted(user) == user.is_admin \/ (user.is_paid /\ ~user.expired)

GuardedReads == {"get_scan_by_id", "get_scan_history"}

RejectedExactlyWhenNotAdmitted ==
    (response # NoResult /\ response.request.handler \in GuardedReads) =>
        (response.status = 402 <=> ~Admitted(caller))

\* C27: require_paid_user admits a caller exactly when the caller is an admin
\* or a payer whose subscription has not expired; every other caller gets 402
\* from get_scan_by_id and get_scan_history, and the stored scans stay as
\* they were.
C27_PaidGate ==
    []RejectedExactlyWhenNotAdmitted /\ [][~Admitted(caller) => scans' = scans]_vars

\* a payer whose subscription has expired asks for their own scan by id and
\* is refused
C27_Witness ==
    /\ response # NoResult
    /\ response.request.handler = "get_scan_by_id"
    /\ caller.is_paid /\ caller.expired /\ ~caller.is_admin
    /\ \E i \in 1..Len(scans) : scans[i].id = response.request.arg /\ scans[i].user_id = caller.id
    /\ response.status = 402

\* the request r arrives in this step and names a scan of another user
NamesForeignScan(r) ==
    /\ procs[r].pc = "idle"
    /\ procs'[r].pc # "idle"
    /\ procs'[r].handler \in {"analyze_scan", "get_scan_by_id"}
    /\ db.scans[procs'[r].scan_id].user_id # procs'[r].user

ForeignScanUntouched(r) ==
    /\ procs'[r].pc = "done"
    /\ db' = db

\* C28 (as stated): analyze_scan and get_scan_by_id answer 404 to a request
\* naming another user's scan and leave the scans and the leaderboard as
\* they were.
C28_ForeignScanNotFound ==
    [][\A r \in Requests :
          NamesForeignScan(r) => (ForeignScanUntouched(r) /\ procs'[r].response.status = 404)]_vars

\* C28 (amended): the same, except that get_scan_by_id answers 402 instead
\* when require_paid_user rejects the caller.
C28_ForeignScanNotFoundOrRefused ==
    [][\A r \in Requests :
          NamesForeignScan(r) =>
              /\ ForeignScanUntouched(r)
              /\ procs'[r].response.status =
                    IF procs'[r].handler = "get_scan_by_id" /\ ~Admitted(procs'[r].current_user)
                    THEN 402 ELSE 404]_vars

\* both handlers have answered 404 to a request naming a scan of another
\* user, after that scan was completed and ranked, and it is as it was
C28_Witness ==
    \E r, q \in Requests :
        /\ procs[r].pc = "done" /\ procs[r].handler = "analyze_scan"
        /\ procs[q].pc = "done" /\ procs[q].handler = "get_scan_by_id"
        /\ procs[r].response.status = 404
        /\ procs[q].response.status = 404
        /\ db.scans[procs[r].scan_id].user_id # procs[r].user
        /\ db.scans[procs[q].scan_id].user_id # procs[q].user
        /\ db.scans[procs[r].scan_id].processing_status = "completed"
        /\ Len(db.leaderboard) = 1

\* C21: a rank recomputation that has run to its end with no step of another
\* request in between leaves no two entries whose ranks are in the opposite
\* order of their scores, whatever interleaved recomputations left behind.
C21_UninterleavedRecomputationSettles ==
    (ranking.by # 0 /\ procs[ranking.by].pc # "rank") => RanksFollowScores(db.leaderboard)

\* two overlapping completions interleaved their rank updates and left ranks
\* that contradict the scores; a recomputation that began in that state has
\* run to its end uninterleaved and the ranks follow the scores again
C21_Witness ==
    /\ ranking.by # 0
    /\ ranking.healing
    /\ procs[ranking.by].pc = "done"
    /\ Len(db.leaderboard) = 2
    /\ RanksFollowScores(db.leaderboard)

\* the overall scores of the user's completed scans, oldest first
CompletedScores(user_id, scan_docs) ==
    LET ids == {i \in 1..Len(scan_docs) : /\ scan_docs[i].user_id = user_id
                                          /\ scan_docs[i].processing_status = "completed"}
        older(i) == Cardinality({j \in ids : scan_docs[j].created_at < scan_docs[i].created_at})
    IN  [k \in 1..Cardinality(ids) |->
            scan_docs[CHOOSE i \in ids : older(i) = k - 1].analysis.metrics.overall_score]

\* the fraction p equals (latest - first) / first * 100, or 0 where the
\* claim says 0
ImprovementAsClaimed(p, scores) ==
    IF Len(scores) < 2 \/ scores[1] = 0 THEN p.num = 0
    ELSE p.num * scores[1] = (scores[Len(scores)] - scores[1]) * 100 * p.den

\* the analyze_scan request r answers "Analysis complete" in this step
Completes(r) ==
    /\ procs[r].handler = "analyze_scan"
    /\ procs[r].pc # "done"
    /\ procs'[r].pc = "done"
    /\ procs'[r].response.status = 200

\* C22 (as stated): when an analyze_scan request completes, the user's
\* improvement_percentage is (latest - first) / first * 100 over the user's
\* completed scans by creation time, and 0 with fewer than two completed
\* scans or a first score of 0.
C22_ImprovementPercentage ==
    [][\A r \in Requests :
          Completes(r) =>
              ImprovementAsClaimed(
                  db'.leaderboard[EntryOf(procs[r].user, db'.leaderboard)].improvement_percentage,
                  CompletedScores(procs[r].user, db'.scans))]_vars

OneEntryPerUser ==
    \A i, j \in 1..Len(db.leaderboard) :
        db.leaderboard[i].user_id = db.leaderboard[j].user_id => i = j

\* the request r stored its analysis and, at line 139, found no entry
FirstTimeCompletion(r) ==
    /\ procs[r].handler = "analyze_scan"
    /\ procs[r].pc = "done"
    /\ procs[r].analysis # NoResult
    /\ procs[r].existing_entry = NoResult

\* C26 (as stated): the leaderboard never holds two entries of one user, and
\* two completions of the same user that both found no entry end with one
\* entry of that user and both scans completed.
C26_OneEntryBothCompleted ==
    /\ OneEntryPerUser
    /\ \A r, q \in Requests :
          (r # q /\ FirstTimeCompletion(r) /\ FirstTimeCompletion(q)
             /\ procs[r].user = procs[q].user) =>
              /\ EntryOf(procs[r].user, db.leaderboard) # 0
              /\ db.scans[procs[r].scan_id].processing_status = "completed"
              /\ db.scans[procs[q].scan_id].processing_status = "completed"

\* C29 (as stated): a scan is completed exactly when it holds an analysis.
C29_CompletedIffAnalysis ==
    \A i \in 1..Len(db.scans) :
        db.scans[i].processing_status = "completed" <=> db.scans[i].analysis # NoResult

\* every analyze_scan request that found the scan i has returned
AllReturned(i) ==
    \A r \in Requests :
        (procs[r].handler = "analyze_scan" /\ procs[r].scan_id = i) => procs[r].pc = "done"

\* C30: once every analyze_scan request on a scan has returned, the scan is
\* not in status processing (a request that found it left it completed or
\* failed), and a request answered "Analysis complete" only if the scan holds
\* an analysis.
C30_NoScanLeftProcessing ==
    /\ \A i \in 1..Len(db.scans) :
          AllReturned(i) =>
              /\ db.scans[i].processing_status # "processing"
              /\ (\E r \in Requests : procs[r].scan_id = i /\ procs[r].scan # NoResult) =>
                    db.scans[i].processing_status \in {"completed", "failed"}
    /\ \A r \in Requests :
          (procs[r].handler = "analyze_scan" /\ procs[r].pc = "done"
             /\ procs[r].response.status = 200) =>
              db.scans[procs[r].scan_id].analysis # NoResult

\* two requests on the same scan have returned, one with "Analysis complete"
\* and a later one with a failure, and the scan is failed
C30_Witness ==
    \E r, q \in Requests :
        /\ r # q
        /\ procs[r].handler = "analyze_scan" /\ procs[q].handler = "analyze_scan"
        /\ procs[r].scan_id = procs[q].scan_id
        /\ procs[r].pc = "done" /\ procs[q].pc = "done"
        /\ procs[r].response.status = 200
        /\ procs[q].response.status = 500
        /\ db.scans[procs[r].scan_id].processing_status = "failed"

\* an activation of the user's subscription has completed
Activated(user) ==
    \E r \in Requests :
        /\ procs[r].handler \in {"stripe_webhook", "test_activate_subscription"}
        /\ procs[r].action = "activate"
        /\ procs[r].user = user
        /\ procs[r].pc = "done"

\* C25 (as stated): once an activation has completed for a user, every scan
\* of that user is unlocked, a scan whose upload was in flight during the
\* activation included.
C25_UnlockedOnceActivated ==
    \A i \in 1..Len(db.scans) : Activated(db.scans[i].user_id) => db.scans[i].is_unlocked

====
